---- MODULE Spec2Model ----
(***************************************************************************)
(* MAGiC genetic circuit designer: the /simulate parameter override        *)
(* resolution (app.py), the circuit builder (circuit_model.py,             *)
(* OntologyBuilderUnified) and the values that flow between them.          *)
(*                                                                         *)
(* Python floats are modelled as exact rationals [n, d] in lowest terms;   *)
(* every value used below is a dyadic rational, which binary floating      *)
(* point multiplies without rounding.                                      *)
(***************************************************************************)
EXTENDS Integers, Sequences, FiniteSets, TLC

VARIABLES
    heap,                 \* the inner dict objects of COMPONENT_CONSTANTS, by object id
    pc,                   \* per request thread: position inside simulate()
    dial_data,            \* per thread: data.get('dial', {})
    apply_dial,           \* per thread: bool(data.get('apply_dial', True))
    adjusted_constants,   \* per thread: the outer dict returned by .copy(): label -> object id
    component_overrides,  \* per thread: parsed per-instance overrides, in insertion order
    idx,                  \* per thread: position of the running for-loop
    calls,                \* number of /simulate requests received so far
    last,                 \* the request and the effective parameters of the latest finished call
    items,                \* builder.items: the parsed components and None markers
    regulators,           \* builder.regulators: the regulator families, in insertion order
    parameters,           \* Component.parameters of every item
    circuit_name,         \* Component.circuit_name of every item ("None" is None)
    circuits,             \* builder.circuits
    regulations,          \* builder.regulations
    unpaired_regulators,  \* builder.unpaired_regulators
    bpc,                  \* position inside build() and simulate_circuit()
    cds_params,           \* simulate_circuit: the per-CDS parameter dicts, in cds_list order
    p0,                   \* simulate_circuit: the initial state handed to odeint
    solver_calls,         \* number of times odeint was invoked
    response,             \* what the caller of the simulation is told
    page,                 \* which page is loaded: "dial" (script.js) or "hardware" (eeprom.js)
    state,                \* the page's state object: currentComponent, placedComponents, cellboard, componentCounts
    cells,                \* the .cell elements of the board: children and classes
    ConnectorManagerEEPROM, \* the static fields of class ConnectorManagerEEPROM
    thrown,               \* the exception the latest handler ended with, "none" if it returned
    toggle,               \* the checked state of the enable-dial toggle
    request,              \* the body of the latest POST /simulate of the page
    now,                  \* the number of component objects created so far: the id of the latest
    serial,               \* eeprom.js' module-level port, reader, writer and isConnecting
    device,               \* the SerialPort object of the attached board
    invocation,           \* per Connect click: the await connectToPort() is suspended at
    buttons,              \* the disabled attribute of btnConnect and btnGetBoard
    LOG_LINES,            \* the log, as far as the scan reads it: see EmptyLog
    scan,                 \* the await readBoardConfiguration() is suspended at, and its channel
    lineBuffer,           \* eeprom.js' module-level lineBuffer, a sequence of characters
    stream                \* the decoded stream of the latest setupSerialStreams and its readLoop

resolverVars == <<heap, pc, dial_data, apply_dial, adjusted_constants,
                  component_overrides, idx, calls, last>>
builderVars == <<items, regulators, parameters, circuit_name, circuits,
                 regulations, unpaired_regulators, bpc>>
simulationVars == <<cds_params, p0, solver_calls, response>>
backendVars == <<resolverVars, builderVars, simulationVars>>
boardVars == <<page, state, cells, ConnectorManagerEEPROM, thrown, toggle, request, now>>
serialVars == <<serial, device, invocation, buttons>>
scanVars == <<LOG_LINES, scan>>
readerVars == <<lineBuffer, stream>>
deviceVars == <<serialVars, scanVars, readerVars>>
frontendVars == <<boardVars, deviceVars>>
vars == <<heap, pc, dial_data, apply_dial, adjusted_constants,
          component_overrides, idx, calls, last,
          items, regulators, parameters, circuit_name, circuits,
          regulations, unpaired_regulators, bpc,
          cds_params, p0, solver_calls, response,
          page, state, cells, ConnectorManagerEEPROM, thrown, toggle, request, now,
          serial, device, invocation, buttons, LOG_LINES, scan,
          lineBuffer, stream>>

----------------------------------------------------------------------------
(* Bounds *)

MaxCalls == 2
MaxItems == 4
MaxProteins == 3
MaxPlaced == 2
MaxUid == 5
MaxClicks == 3
MaxChannels == 2

----------------------------------------------------------------------------
(* Rational arithmetic standing for Python float arithmetic *)

RECURSIVE GCD(_, _)
GCD(a, b) == IF b = 0 THEN a ELSE GCD(b, a % b)

Abs(x) == IF x < 0 THEN 0 - x ELSE x

Rat(n, d) ==
    LET g == GCD(Abs(n), Abs(d))
        s == IF d < 0 THEN 0 - 1 ELSE 1
    IN  [n |-> (s * n) \div g, d |-> (s * d) \div g]

RMul(a, b) == Rat(a.n * b.n, a.d * b.d)

RPositive(a) == a.n > 0

RNonNegative(a) == a.n >= 0

R(n) == Rat(n, 1)

RAdd(a, b) == Rat(a.n * b.d + b.n * a.d, a.d * b.d)

RSub(a, b) == Rat(a.n * b.d - b.n * a.d, a.d * b.d)

RDiv(a, b) == Rat(a.n * b.d, a.d * b.n)

\* a ** k for a whole exponent k
RECURSIVE RPow(_, _)
RPow(a, k) == IF k = 0 THEN R(1) ELSE RMul(a, RPow(a, k - 1))

----------------------------------------------------------------------------
(* constants.py: COMPONENT_CONSTANTS.  The outer dict maps a label to an    *)
(* inner dict object; the inner dicts live in the heap.                     *)

Labels == <<"promoter_1", "promoter_2", "rbs_1", "cds_1">>

COMPONENT_CONSTANTS ==
    [promoter_1 |-> 1, promoter_2 |-> 2, rbs_1 |-> 3, cds_1 |-> 4]

DefaultHeap ==
    <<[strength |-> R(5), type |-> "promoter"],
      [strength |-> R(5), type |-> "promoter"],
      [efficiency |-> R(1), type |-> "rbs"],
      [degradation_rate |-> R(1), translation_rate |-> R(7),
       init_conc |-> R(0), type |-> "cds"]>>

\* The values a dict of dicts holds: what a reader of `outer` sees in heap h.
Deref(h, outer) == [l \in DOMAIN outer |-> h[outer[l]]]

\* The registry as a value: every label with the contents of its inner dict.
Registry == Deref(heap, COMPONENT_CONSTANTS)

DefaultRegistry == Deref(DefaultHeap, COMPONENT_CONSTANTS)

\* dict[k] = v on a Python dict held as a function
SetItem(obj, k, v) ==
    [x \in (DOMAIN obj) \cup {k} |-> IF x = k THEN v ELSE obj[x]]

----------------------------------------------------------------------------
(* The override request (the "dial" object of the /simulate request body).  *)
(* A key is held split at the places the parser cuts it:                    *)
(* "promoter1_strength" is prefix "promoter", number "1", rest "_strength". *)

Key(prefix, num, suffix) == [prefix |-> prefix, num |-> num, suffix |-> suffix]

promoter1_strength == Key("promoter", "1", "_strength")
promoter3_strength == Key("promoter", "3", "_strength")
cds1_degradation_rate == Key("cds", "1", "_degradation_rate")
global_transcription_rate == Key("global", "", "_transcription_rate")
global_degradation_rate == Key("global", "", "_degradation_rate")

\* insertion order of the request's JSON object
DialKeyOrder ==
    <<promoter1_strength, promoter3_strength, cds1_degradation_rate,
      global_transcription_rate, global_degradation_rate>>

DialKeys == {DialKeyOrder[i] : i \in 1..Len(DialKeyOrder)}

\* the values a request may carry for a key
DialValues(k) ==
    IF k = promoter1_strength THEN {R(10)}
    ELSE IF k = promoter3_strength THEN {R(8)}
    ELSE IF k = cds1_degradation_rate THEN {Rat(1, 2), R(0)}
    ELSE IF k = global_transcription_rate THEN {Rat(3, 2)}
    ELSE {Rat(1, 2)}

Absent == [present |-> FALSE, value |-> R(0)]

Given(v) == [present |-> TRUE, value |-> v]

DialOptions(k) == {Absent} \cup {Given(v) : v \in DialValues(k)}

\* the JSON object holding the keys that were given
MakeDial(c) ==
    [k \in {DialKeyOrder[i] : i \in {j \in 1..Len(DialKeyOrder) : c[j].present}} |->
        c[CHOOSE i \in 1..Len(DialKeyOrder) : DialKeyOrder[i] = k].value]

Dials ==
    {MakeDial(c) : c \in DialOptions(promoter1_strength)
                         \X DialOptions(promoter3_strength)
                         \X DialOptions(cds1_degradation_rate)
                         \X DialOptions(global_transcription_rate)
                         \X DialOptions(global_degradation_rate)}

EmptyDial == [k \in {} |-> R(0)]

\* dial_data.get(k, default)
DialGet(dial, k, default) == IF k \in DOMAIN dial THEN dial[k] ELSE default

\* component_overrides[comp_key] = {param: value}: a dict in insertion order,
\* an assignment to a key already present replaces its value in place
PutOverride(acc, comp_key, param, value) ==
    LET entry == [comp |-> comp_key, overrides |-> SetItem(EmptyDial, param, value)]
    IN  IF \E i \in 1..Len(acc) : acc[i].comp = comp_key
        THEN [i \in 1..Len(acc) |-> IF acc[i].comp = comp_key THEN entry ELSE acc[i]]
        ELSE Append(acc, entry)

RECURSIVE ParseFrom(_, _, _)
ParseFrom(dial, i, acc) ==
    IF i > Len(DialKeyOrder) THEN acc
    ELSE LET k == DialKeyOrder[i] IN
         IF k \notin DOMAIN dial THEN ParseFrom(dial, i + 1, acc)
         ELSE IF k.prefix = "promoter" /\ k.suffix = "_strength"
         THEN ParseFrom(dial, i + 1,
                        PutOverride(acc, "promoter_" \o k.num, "strength", dial[k]))
         ELSE IF k.prefix = "cds" /\ k.suffix = "_degradation_rate"
         THEN ParseFrom(dial, i + 1,
                        PutOverride(acc, "cds_" \o k.num, "degradation_rate", dial[k]))
         ELSE ParseFrom(dial, i + 1, acc)

\* PRIORITY 1, first loop: the request's keys parsed into component_overrides
ParseOverrides(dial) == ParseFrom(dial, 1, <<>>)

RECURSIVE SetParams(_, _, _)
SetParams(obj, overrides, todo) ==
    IF todo = {} THEN obj
    ELSE LET param == CHOOSE p \in todo : TRUE
         IN  SetParams(SetItem(obj, param, overrides[param]), overrides, todo \ {param})

\* PRIORITY 1, second loop, one iteration: adjusted_constants[comp_name][param] = value
ApplyOverrideTo(h, outer, entry) ==
    IF entry.comp \in DOMAIN outer
    THEN [h EXCEPT ![outer[entry.comp]] =
             SetParams(@, entry.overrides, DOMAIN entry.overrides)]
    ELSE h

CompType(obj) == IF "type" \in DOMAIN obj THEN obj.type ELSE "None"

\* variant: the multiplier is applied to the registry default
MultiplierBaseDefault(h, outer, comp_name, param) == DefaultHeap[outer[comp_name]][param]

\* the value a global multiplier is applied to: the entry as it stands now
MultiplierBase(h, outer, comp_name, param) == h[outer[comp_name]][param]

\* PRIORITY 2, one iteration of `for comp_name in adjusted_constants`
ApplyGlobalTo(h, outer, comp_name, gt, gd) ==
    LET o == outer[comp_name]
        h1 == IF CompType(h[o]) = "promoter" /\ "strength" \in DOMAIN h[o]
              THEN [h EXCEPT ![o] = SetItem(@, "strength",
                       RMul(MultiplierBase(h, outer, comp_name, "strength"), gt))]
              ELSE h
    IN  IF CompType(h1[o]) = "cds" /\ "degradation_rate" \in DOMAIN h1[o]
        THEN [h1 EXCEPT ![o] = SetItem(@, "degradation_rate",
                 RMul(MultiplierBase(h1, outer, comp_name, "degradation_rate"), gd))]
        ELSE h1

\* `if apply_dial and dial_data:`
OverridesEnabled(dial, apply) == apply /\ DOMAIN dial # {}

RECURSIVE OverridesFrom(_, _, _, _)
OverridesFrom(h, outer, co, i) ==
    IF i > Len(co) THEN h
    ELSE OverridesFrom(ApplyOverrideTo(h, outer, co[i]), outer, co, i + 1)

RECURSIVE GlobalsFrom(_, _, _, _, _)
GlobalsFrom(h, outer, i, gt, gd) ==
    IF i > Len(Labels) THEN h
    ELSE GlobalsFrom(ApplyGlobalTo(h, outer, Labels[i], gt, gd), outer, i + 1, gt, gd)

\* One whole resolution run without interruption on heap h: the heap it leaves.
ResolveAlone(h, dial, apply) ==
    IF OverridesEnabled(dial, apply)
    THEN GlobalsFrom(OverridesFrom(h, COMPONENT_CONSTANTS, ParseOverrides(dial), 1),
                     COMPONENT_CONSTANTS, 1,
                     DialGet(dial, global_transcription_rate, R(1)),
                     DialGet(dial, global_degradation_rate, R(1)))
    ELSE h

Threads == {"t1", "t2"}

NoCall == [valid |-> FALSE, dial |-> EmptyDial, apply |-> FALSE,
           result |-> DefaultRegistry]

\* requests whose values lie in the dial's slider ranges (all above zero)
SerialDials == {d \in Dials : \A k \in DOMAIN d : RPositive(d[k])}

\* the requests the concurrent specification draws from
ConcurrentDials ==
    {d \in Dials : /\ promoter3_strength \notin DOMAIN d
                   /\ cds1_degradation_rate \notin DOMAIN d
                   /\ global_degradation_rate \notin DOMAIN d}

----------------------------------------------------------------------------
(* simulate(): the /simulate endpoint, one Flask request thread t *)

\* lines 424-450: read the request, copy the registry (a shallow copy: a new
\* outer dict whose values are the registry's own inner dicts), parse the keys
Receive(t, dial, apply) ==
    /\ pc[t] = "idle"
    /\ calls < MaxCalls
    /\ calls' = calls + 1
    /\ dial_data' = [dial_data EXCEPT ![t] = dial]
    /\ apply_dial' = [apply_dial EXCEPT ![t] = apply]
    /\ adjusted_constants' = [adjusted_constants EXCEPT ![t] = COMPONENT_CONSTANTS]
    /\ idx' = [idx EXCEPT ![t] = 1]
    /\ IF OverridesEnabled(dial, apply)
       THEN /\ component_overrides' =
                  [component_overrides EXCEPT ![t] = ParseOverrides(dial)]
            /\ pc' = [pc EXCEPT ![t] =
                  IF Len(ParseOverrides(dial)) > 0 THEN "override" ELSE "global"]
       ELSE /\ component_overrides' = [component_overrides EXCEPT ![t] = <<>>]
            /\ pc' = [pc EXCEPT ![t] = "build"]
    /\ UNCHANGED <<heap, last>>
    /\ UNCHANGED builderVars
    /\ UNCHANGED simulationVars
    /\ UNCHANGED frontendVars

\* requests served one at a time
SimulateSerial(t) ==
    /\ \A u \in Threads : pc[u] = "idle"
    /\ \E dial \in SerialDials, apply \in BOOLEAN : Receive(t, dial, apply)

\* requests served by concurrent threads
SimulateConcurrent(t) ==
    \E dial \in ConcurrentDials, apply \in BOOLEAN : Receive(t, dial, apply)

\* lines 453-457, one iteration
ApplyOverride(t) ==
    /\ pc[t] = "override"
    /\ heap' = ApplyOverrideTo(heap, adjusted_constants[t], component_overrides[t][idx[t]])
    /\ IF idx[t] < Len(component_overrides[t])
       THEN /\ idx' = [idx EXCEPT ![t] = idx[t] + 1]
            /\ pc' = pc
       ELSE /\ idx' = [idx EXCEPT ![t] = 1]
            /\ pc' = [pc EXCEPT ![t] = "global"]
    /\ UNCHANGED <<dial_data, apply_dial, adjusted_constants, component_overrides,
                   calls, last>>
    /\ UNCHANGED builderVars
    /\ UNCHANGED simulationVars
    /\ UNCHANGED frontendVars

\* lines 463-479, one iteration
ApplyGlobal(t) ==
    /\ pc[t] = "global"
    /\ heap' = ApplyGlobalTo(heap, adjusted_constants[t], Labels[idx[t]],
                             DialGet(dial_data[t], global_transcription_rate, R(1)),
                             DialGet(dial_data[t], global_degradation_rate, R(1)))
    /\ IF idx[t] < Len(Labels)
       THEN /\ idx' = [idx EXCEPT ![t] = idx[t] + 1]
            /\ pc' = pc
       ELSE /\ idx' = [idx EXCEPT ![t] = 1]
            /\ pc' = [pc EXCEPT ![t] = "build"]
    /\ UNCHANGED <<dial_data, apply_dial, adjusted_constants, component_overrides,
                   calls, last>>
    /\ UNCHANGED builderVars
    /\ UNCHANGED simulationVars
    /\ UNCHANGED frontendVars

\* lines 484-486: the builder is made from adjusted_constants and reads its
\* parameters from it; the thread's locals are dropped on return
UseAdjusted(t) ==
    /\ pc[t] = "build"
    /\ last' = [valid |-> TRUE, dial |-> dial_data[t], apply |-> apply_dial[t],
                result |-> Deref(heap, adjusted_constants[t])]
    /\ pc' = [pc EXCEPT ![t] = "idle"]
    /\ dial_data' = [dial_data EXCEPT ![t] = EmptyDial]
    /\ apply_dial' = [apply_dial EXCEPT ![t] = FALSE]
    /\ component_overrides' = [component_overrides EXCEPT ![t] = <<>>]
    /\ UNCHANGED <<heap, adjusted_constants, idx, calls>>
    /\ UNCHANGED builderVars
    /\ UNCHANGED simulationVars
    /\ UNCHANGED frontendVars

(* The two browser pages: dial mode (static/js/script.js) and hardware      *)
(* mode (static/js/eeprom.js).  Two cells of the board are followed; of     *)
(* the twelve component types the three below are followed.                 *)

\* the keys of state.cellboard in insertion order, the order of Object.entries
CellboardKeys == <<"CDS", "Repressor Start", "Repressor End">>

BoardTypes == {CellboardKeys[i] : i \in 1..Len(CellboardKeys)}

REGULATOR_TYPES == {"Repressor Start", "Repressor End"}

\* componentType.toLowerCase().replace(' ', '_')
BaseType(type) ==
    IF type = "CDS" THEN "cds"
    ELSE IF type = "Repressor Start" THEN "repressor_start"
    ELSE "repressor_end"

\* the .cell elements, named by their data-x and data-y
Cells == {<<0, 0>>, <<1, 0>>}

\* a JavaScript value of a coordinate field: parseInt gives a number,
\* cell.dataset.x gives a string
Num(v) == <<"number", v>>
Str(v) == <<"string", v>>

\* a === b
StrictEq(a, b) == a = b

\* a == b between numbers and numeric strings
LooseEq(a, b) == a[2] = b[2]

\* the object state as the page's script creates it; a missing key of
\* componentCounts reads as 0
StateAtLoad ==
    [currentComponent |-> "null",
     placedComponents |-> <<>>,
     cellboard |-> [t \in BoardTypes |-> <<>>],
     componentCounts |-> [b \in {BaseType(t) : t \in BoardTypes} |-> 0]]

\* a cell without children and without the classes filled and has-component
\* a cell that holds no .placed-component element
NoDisplay == [type |-> "none", number |-> 0, component |-> 0]

EmptyCell == [placed |-> NoDisplay, filled |-> FALSE, has_component |-> FALSE]

\* the static fields of ConnectorManagerEEPROM at class definition
ManagerAtLoad ==
    [nextUid |-> 0,
     componentLookup |-> <<>>,
     portLookup |-> <<>>,
     connectorLookup |-> <<>>,
     connectorPool |-> <<>>,
     isDragging |-> FALSE,
     dragTarget |-> 0]

NoRequest == [sent |-> FALSE]

BoardIdle ==
    /\ page = "dial"
    /\ state = StateAtLoad
    /\ cells = [c \in Cells |-> EmptyCell]
    /\ ConnectorManagerEEPROM = ManagerAtLoad
    /\ thrown = "none"
    /\ toggle = FALSE
    /\ request = NoRequest
    /\ now = 0

\* part_000 1436-1443: the serial globals as declared
SerialAtLoad ==
    [port |-> "null", reader |-> "null", writer |-> "null", isConnecting |-> FALSE]

\* a Connect click not made yet; `set` and `armed` record the invocation's own
\* assignments to isConnecting: whether it ever set it, and whether its latest
\* assignment was `true`
NotClicked == [pc |-> "idle", set |-> FALSE, armed |-> FALSE, writes |-> 0]

SerialIdle ==
    /\ serial = SerialAtLoad
    /\ device = [opened |-> FALSE]
    /\ invocation = [i \in 1..MaxClicks |-> NotClicked]
    /\ buttons = [btnConnect |-> [disabled |-> FALSE], btnGetBoard |-> [disabled |-> TRUE]]

\* waitForPrompt looks at the last ten lines, the MUX check at the last three
PromptWindow == 10
FailWindow == 3

\* part_000 1435: LOG_LINES = [].  The log is followed by what the scan reads
\* of it: sincePrompt is the number of lines pushed after the latest line that
\* ends with '>' or contains '$' (PromptWindow: none among the last ten),
\* sinceFail the number of lines pushed after the latest line that contains
\* 'error' or 'fail' (FailWindow: none among the last three), hexAdded
\* whether the number of hex-dump lines differs from hexLinesBefore
EmptyLog == [sincePrompt |-> PromptWindow, sinceFail |-> FailWindow, hexAdded |-> FALSE]

\* the summary of a channel the scan has not dealt with: how its pass ended,
\* what the board sent while its 'sm' was waited for, the calls of
\* sendCommand('hd 0 16'), how many of them were written, and whether the
\* first one added a hex-dump line
NoChannel == [outcome |-> "none", answer |-> "none", calls |-> 0, sent |-> 0, grew |-> FALSE]

\* no scan yet; `prompted` tells whether a prompt line arrived since the
\* command that is being waited for was written
NotScanning ==
    [pc |-> "idle", k |-> 0, channel |-> 0, prompted |-> FALSE,
     current |-> NoChannel, finished |-> NoChannel, result |-> "none"]

ScanIdle ==
    /\ LOG_LINES = EmptyLog
    /\ scan = NotScanning

\* part_000 1444: lineBuffer = ''.  A stream is followed by whether a
\* readLoop awaits its reader, the characters it has delivered, and the
\* lines that loop has appended to the log
NoStream == [reading |-> FALSE, received |-> <<>>, logged |-> <<>>]

ReaderIdle ==
    /\ lineBuffer = <<>>
    /\ stream = NoStream

DeviceIdle == SerialIdle /\ ScanIdle /\ ReaderIdle

FrontendIdle == BoardIdle /\ DeviceIdle

SimulationIdle ==
    /\ cds_params = <<>>
    /\ p0 = <<>>
    /\ solver_calls = 0
    /\ response = "none"

BuilderIdle ==
    /\ items = <<>>
    /\ regulators = <<>>
    /\ parameters = <<>>
    /\ circuit_name = <<>>
    /\ circuits = <<>>
    /\ regulations = <<>>
    /\ unpaired_regulators = <<>>
    /\ bpc = "idle"
    /\ SimulationIdle

ResolverInit ==
    /\ heap = DefaultHeap
    /\ pc = [t \in Threads |-> "idle"]
    /\ dial_data = [t \in Threads |-> EmptyDial]
    /\ apply_dial = [t \in Threads |-> FALSE]
    /\ adjusted_constants = [t \in Threads |-> COMPONENT_CONSTANTS]
    /\ component_overrides = [t \in Threads |-> <<>>]
    /\ idx = [t \in Threads |-> 1]
    /\ calls = 0
    /\ last = NoCall

Init == ResolverInit /\ BuilderIdle /\ FrontendIdle

NextSerial ==
    \E t \in Threads :
        \/ SimulateSerial(t)
        \/ ApplyOverride(t)
        \/ ApplyGlobal(t)
        \/ UseAdjusted(t)

NextConcurrent ==
    \E t \in Threads :
        \/ SimulateConcurrent(t)
        \/ ApplyOverride(t)
        \/ ApplyGlobal(t)
        \/ UseAdjusted(t)

\* requests arrive one after another
SpecSerial == Init /\ [][NextSerial]_vars

\* requests are served by two threads at once
SpecConcurrent == Init /\ [][NextConcurrent]_vars

----------------------------------------------------------------------------
(* circuit_model.py: Component and OntologyBuilderUnified.  An item of       *)
(* builder.items is a Component as the parser made it, or None.              *)

Part(label, type) ==
    [label |-> label, type |-> type, is_regulator |-> FALSE, position |-> "None",
     reg_key |-> "None", key_position |-> "None", reg_type |-> "None",
     gene |-> "None", is_floating |-> FALSE]

\* a regulator element: key_position is the "start"/"end" found inside its reg_key
RegulatorPart(label, position, reg_key, key_position, reg_type, gene, floating) ==
    [label |-> label, type |-> "regulator", is_regulator |-> TRUE,
     position |-> position, reg_key |-> reg_key, key_position |-> key_position,
     reg_type |-> reg_type, gene |-> gene, is_floating |-> floating]

NoneItem == Part("None", "None")

floating_repressor ==
    RegulatorPart("floating_repressor", "start", "floating_repressor", "None",
                  "repression", "None", TRUE)

floating_activator ==
    RegulatorPart("floating_activator", "start", "floating_activator", "None",
                  "activation", "None", TRUE)

repressor_start_1 ==
    RegulatorPart("repressor_start_1", "start", "repressor_start_1", "start",
                  "repression", "1", FALSE)

repressor_end_1 ==
    RegulatorPart("repressor_end_1", "end", "repressor_end_1", "end",
                  "repression", "1", FALSE)

\* the regulator elements a hardware line may name
RegulatorPool == {floating_repressor, repressor_start_1, repressor_end_1}

\* the components a hardware line may name
PartPool ==
    {Part("promoter_1", "promoter"), Part("rbs_1", "rbs"), Part("cds_1", "cds"),
     Part("cds_2", "cds"), Part("terminator_1", "terminator")} \cup RegulatorPool

EmptyBag == [k \in {} |-> R(0)]

\* does the block being parsed (the items after the last None) hold a CDS
RECURSIVE OpenBlockHasCds(_, _)
OpenBlockHasCds(its, i) ==
    IF i = 0 THEN FALSE
    ELSE IF its[i] = NoneItem THEN FALSE
    ELSE its[i].type = "cds" \/ OpenBlockHasCds(its, i - 1)

\* self.regulators[reg_key]: starts/ends get the item's index
Register(regs, comp, i) ==
    IF ~comp.is_regulator THEN regs
    ELSE LET fresh == [reg_key |-> comp.reg_key, key_position |-> comp.key_position,
                       gene |-> comp.gene, starts |-> <<>>, ends |-> <<>>,
                       type |-> "None", is_floating |-> FALSE]
             known == \E k \in 1..Len(regs) : regs[k].reg_key = comp.reg_key
             all == IF known THEN regs ELSE Append(regs, fresh)
             add(f) == [f EXCEPT
                          !.starts = IF comp.position = "start" THEN Append(@, i) ELSE @,
                          !.ends = IF comp.position = "end" THEN Append(@, i) ELSE @,
                          !.type = comp.reg_type,
                          !.is_floating = comp.is_floating]
         IN  [k \in 1..Len(all) |->
                 IF all[k].reg_key = comp.reg_key THEN add(all[k]) ELSE all[k]]

\* params.get(field, default) after params = self.constants.get(label, {})
ConstGet(constants, label, field, default) ==
    IF label \in DOMAIN constants /\ field \in DOMAIN constants[label]
    THEN constants[label][field]
    ELSE default

\* variant: only the translation rate is written
CdsParametersPartial(constants, label, bag) ==
    SetItem(bag, "translation_rate", ConstGet(constants, label, "translation_rate", R(5)))

\* the parameters _finalize_block writes for a CDS
CdsParameters(constants, label, bag) ==
    SetItem(SetItem(SetItem(bag,
        "translation_rate", ConstGet(constants, label, "translation_rate", R(5))),
        "degradation_rate", ConstGet(constants, label, "degradation_rate", Rat(1, 10))),
        "init_conc", ConstGet(constants, label, "init_conc", Rat(1, 100)))

\* _finalize_block step 1 for one component
AssignParameters(constants, comp, bag) ==
    IF comp.type = "promoter"
    THEN SetItem(bag, "strength", ConstGet(constants, comp.label, "strength", R(1)))
    ELSE IF comp.type = "rbs"
    THEN SetItem(bag, "efficiency", ConstGet(constants, comp.label, "efficiency", R(1)))
    ELSE IF comp.type = "cds"
    THEN CdsParameters(constants, comp.label, bag)
    ELSE bag

\* Component.to_dict()
ToDict(comp, i, bag) ==
    [id |-> i, type |-> comp.type, name |-> comp.label, parameters |-> bag]

InBlock(comps, i) == \E j \in 1..Len(comps) : comps[j] = i

\* variant: the CDS check is missing
HasCdsUnchecked(its, comps) == TRUE

\* step 2 of _finalize_block: is the block kept as a circuit
HasCds(its, comps) == \E j \in 1..Len(comps) : its[comps[j]].type = "cds"

\* f"circuit_{k}"
CircuitName(k) == "circuit_" \o ToString(k)

\* the promoters of the block after the first one, as extras
ExtraPromoters(its, comps) ==
    LET promoter_comps == SelectSeq(comps, LAMBDA i : its[i].type = "promoter")
    IN  IF Len(promoter_comps) > 1
        THEN [n \in 1..(Len(promoter_comps) - 1) |->
                 [id |-> promoter_comps[n + 1],
                  name |-> its[promoter_comps[n + 1]].label,
                  reason |-> "Extra promoter"]]
        ELSE <<>>

\* the RBS and CDS of the block, in order
RbsCdsSequence(its, comps) ==
    SelectSeq(comps, LAMBDA i : its[i].type \in {"rbs", "cds"})

\* rbs-cds-rbs-cds: every odd place an RBS, every even place a CDS
Alternating(its, seq) ==
    /\ Len(seq) % 2 = 0
    /\ \A n \in 1..Len(seq) :
          its[seq[n]].type = (IF n % 2 = 1 THEN "rbs" ELSE "cds")

\* rbs-cds-cds-cds: one RBS, then one or more CDS
Grouped(its, seq) ==
    /\ Len(seq) >= 2
    /\ \A n \in 1..Len(seq) :
          its[seq[n]].type = (IF n = 1 THEN "rbs" ELSE "cds")

\* _validate_rbs_sequence_patterns(comps): the extras for an RBS/CDS
\* sequence that is neither alternating nor grouped
validate_rbs_sequence_patterns(its, comps) ==
    LET seq == RbsCdsSequence(its, comps)
    IN  IF Alternating(its, seq) \/ Grouped(its, seq) THEN <<>>
        ELSE <<[id |-> seq[1], name |-> its[seq[1]].label,
                reason |-> "Invalid RBS sequence"]>>

\* step 4 of _finalize_block: promoter after CDS, RBS after CDS, terminator
\* before CDS
MisplacedComponents(its, comps) ==
    LET cdsAt == {n \in 1..Len(comps) : its[comps[n]].type = "cds"}
        wrong(n) ==
            \/ its[comps[n]].type = "promoter" /\ \E c \in cdsAt : c < n
            \/ its[comps[n]].type = "rbs" /\ \A c \in cdsAt : c < n
            \/ its[comps[n]].type = "terminator" /\ \A c \in cdsAt : n < c
        at == SelectSeq([n \in 1..Len(comps) |-> n], wrong)
    IN  [n \in 1..Len(at) |-> [id |-> comps[at[n]], name |-> its[comps[at[n]]].label]]

\* variant: a block with anomalies is rejected
FinalizeBlockRejecting(st, its, comps, constants) ==
    LET assigned == [i \in 1..Len(its) |->
                        IF InBlock(comps, i)
                        THEN AssignParameters(constants, its[i], st.parameters[i])
                        ELSE st.parameters[i]]
        name == CircuitName(Len(st.circuits) + 1)
        extras == ExtraPromoters(its, comps) \o validate_rbs_sequence_patterns(its, comps)
    IN  IF ~HasCds(its, comps) \/ extras # <<>> \/ MisplacedComponents(its, comps) # <<>>
        THEN [st EXCEPT !.parameters = assigned]
        ELSE [parameters |-> assigned,
              circuit_name |-> [i \in 1..Len(its) |->
                                   IF InBlock(comps, i) THEN name ELSE st.circuit_name[i]],
              circuits |-> Append(st.circuits,
                  [name |-> name,
                   components |-> [j \in 1..Len(comps) |->
                       ToDict(its[comps[j]], comps[j], assigned[comps[j]])],
                   extras |-> extras,
                   misplaced |-> <<>>])]

\* variant: the circuit is named after the place of its first component
FinalizeBlockNamedByPlace(st, its, comps, constants) ==
    LET assigned == [i \in 1..Len(its) |->
                        IF InBlock(comps, i)
                        THEN AssignParameters(constants, its[i], st.parameters[i])
                        ELSE st.parameters[i]]
        name == CircuitName(comps[1])
    IN  IF ~HasCds(its, comps)
        THEN [st EXCEPT !.parameters = assigned]
        ELSE [parameters |-> assigned,
              circuit_name |-> [i \in 1..Len(its) |->
                                   IF InBlock(comps, i) THEN name ELSE st.circuit_name[i]],
              circuits |-> Append(st.circuits,
                  [name |-> name,
                   components |-> [j \in 1..Len(comps) |->
                       ToDict(its[comps[j]], comps[j], assigned[comps[j]])],
                   extras |-> ExtraPromoters(its, comps)
                                \o validate_rbs_sequence_patterns(its, comps),
                   misplaced |-> MisplacedComponents(its, comps)])]

\* _finalize_block(comps); st holds parameters, circuit_name and circuits,
\* comps the block as indices into the items
FinalizeBlock(st, its, comps, constants) ==
    LET assigned == [i \in 1..Len(its) |->
                        IF InBlock(comps, i)
                        THEN AssignParameters(constants, its[i], st.parameters[i])
                        ELSE st.parameters[i]]
        name == CircuitName(Len(st.circuits) + 1)
    IN  IF ~HasCds(its, comps)
        THEN [st EXCEPT !.parameters = assigned]
        ELSE [parameters |-> assigned,
              circuit_name |-> [i \in 1..Len(its) |->
                                   IF InBlock(comps, i) THEN name ELSE st.circuit_name[i]],
              circuits |-> Append(st.circuits,
                  [name |-> name,
                   components |-> [j \in 1..Len(comps) |->
                       ToDict(its[comps[j]], comps[j], assigned[comps[j]])],
                   extras |-> ExtraPromoters(its, comps)
                                \o validate_rbs_sequence_patterns(its, comps),
                   misplaced |-> MisplacedComponents(its, comps)])]

\* variant: the loop ends at the first block that has no CDS
RECURSIVE BuildLoopStopping(_, _, _, _, _)
BuildLoopStopping(st, its, i, blk, constants) ==
    IF i > Len(its) + 1 THEN st
    ELSE IF i = Len(its) + 1 \/ its[i] = NoneItem
    THEN IF blk # <<>>
         THEN IF HasCds(its, blk)
              THEN BuildLoopStopping(FinalizeBlock(st, its, blk, constants),
                                     its, i + 1, <<>>, constants)
              ELSE FinalizeBlock(st, its, blk, constants)
         ELSE BuildLoopStopping(st, its, i + 1, blk, constants)
    ELSE BuildLoopStopping(st, its, i + 1, Append(blk, i), constants)

\* the loop of build() over self.items + [None], from position i with block open
RECURSIVE BuildLoop(_, _, _, _, _)
BuildLoop(st, its, i, blk, constants) ==
    IF i > Len(its) + 1 THEN st
    ELSE IF i = Len(its) + 1 \/ its[i] = NoneItem
    THEN IF blk # <<>>
         THEN BuildLoop(FinalizeBlock(st, its, blk, constants), its, i + 1, <<>>, constants)
         ELSE BuildLoop(st, its, i + 1, blk, constants)
    ELSE BuildLoop(st, its, i + 1, Append(blk, i), constants)

\* every component dict of every circuit, in order, with its place
RECURSIVE AllComponents(_, _)
AllComponents(cs, k) ==
    IF k > Len(cs) THEN <<>>
    ELSE [j \in 1..Len(cs[k].components) |->
             [circuit |-> k, at |-> j, comp |-> cs[k].components[j]]]
         \o AllComponents(cs, k + 1)

IsPromoter(e) == e.comp.type = "promoter"

IsCds(e) == e.comp.type = "cds"

\* find_promoter_before(cds): the nearest promoter before the CDS in its circuit
find_promoter_before(cs, e) ==
    LET comps == cs[e.circuit].components
        before == {j \in 1..(e.at - 1) : comps[j].type = "promoter"}
    IN  IF before = {} THEN "None"
        ELSE comps[CHOOSE j \in before : \A j2 \in before : j2 <= j].name

\* find_promoter_after(cds): the nearest promoter after the CDS in its circuit
find_promoter_after(cs, e) ==
    LET comps == cs[e.circuit].components
        after == {j \in (e.at + 1)..Len(comps) : comps[j].type = "promoter"}
    IN  IF after = {} THEN "None"
        ELSE comps[CHOOSE j \in after : \A j2 \in after : j <= j2].name

\* matches_gene(cds["name"], gene_id)
matches_gene(name, gene_id) == name = "cds_" \o gene_id

\* _detect_unpaired_regulators: a family whose starts and ends differ in number
RECURSIVE DetectUnpaired(_, _)
DetectUnpaired(regs, k) ==
    IF k > Len(regs) THEN <<>>
    ELSE (IF Len(regs[k].starts) # Len(regs[k].ends)
          THEN <<[reg_key |-> regs[k].reg_key, issue |-> "Missing start/end pairs"]>>
          ELSE <<>>)
         \o DetectUnpaired(regs, k + 1)

\* variant: only the first promoter gets a record
FloatingRecordsFirstOnly(acc, f, its, proms, j) ==
    IF proms = <<>> \/ f.starts = <<>> THEN acc
    ELSE [acc EXCEPT !.regs = Append(@,
             [source |-> its[f.starts[1]].label,
              target |-> proms[1].comp.name,
              type |-> "environmental_" \o f.type])]

\* Case 1 of _build_regulations for one family: one record per promoter
RECURSIVE FloatingRecords(_, _, _, _, _)
FloatingRecords(acc, f, its, proms, j) ==
    IF j > Len(proms) \/ acc.raised THEN acc
    ELSE IF f.starts = <<>>
    THEN [acc EXCEPT !.raised = TRUE]
    ELSE FloatingRecords(
            [acc EXCEPT !.regs = Append(@,
                [source |-> its[f.starts[1]].label,
                 target |-> proms[j].comp.name,
                 type |-> "environmental_" \o f.type])],
            f, its, proms, j + 1)

\* Case 2 of _build_regulations for one family: one record per matching CDS;
\* target_promoter is a local of the method and keeps its value between matches
RECURSIVE PositionalRecords(_, _, _, _, _, _, _)
PositionalRecords(acc, f, its, cs, cdss, j, constants) ==
    IF j > Len(cdss) \/ acc.raised THEN acc
    ELSE IF ~matches_gene(cdss[j].comp.name, f.gene)
    THEN PositionalRecords(acc, f, its, cs, cdss, j + 1, constants)
    ELSE LET target == IF f.key_position = "start" THEN find_promoter_before(cs, cdss[j])
                       ELSE IF f.key_position = "end" THEN find_promoter_after(cs, cdss[j])
                       ELSE acc.target_promoter
         IN  IF target = "Unbound" \/ f.starts = <<>>
             THEN [acc EXCEPT !.raised = TRUE]
             ELSE PositionalRecords(
                     [acc EXCEPT
                        !.target_promoter = target,
                        !.regs = Append(@,
                          [source |-> cdss[j].comp.name,
                           target |-> target,
                           type |-> "transcriptional_" \o f.type,
                           parameters |->
                             [Kd |-> ConstGet(constants, its[f.starts[1]].label, "Kd", R(5)),
                              n |-> ConstGet(constants, its[f.starts[1]].label, "n", R(2))]])],
                     f, its, cs, cdss, j + 1, constants)

RECURSIVE RegulationsFrom(_, _, _, _, _, _)
RegulationsFrom(acc, regs, k, its, cs, constants) ==
    IF k > Len(regs) \/ acc.raised THEN acc
    ELSE RegulationsFrom(
            IF regs[k].is_floating
            THEN FloatingRecords(acc, regs[k], its, SelectSeq(AllComponents(cs, 1), IsPromoter), 1)
            ELSE PositionalRecords(acc, regs[k], its, cs,
                                   SelectSeq(AllComponents(cs, 1), IsCds), 1, constants),
            regs, k + 1, its, cs, constants)

\* _build_regulations(): the records appended, and whether an exception was raised
build_regulations(regs, its, cs, constants) ==
    RegulationsFrom([regs |-> <<>>, raised |-> FALSE, target_promoter |-> "Unbound"],
                    regs, 1, its, cs, constants)

\* a regulation record that is not the constitutive default
Explicit(r) == r.type # "constitutive"

\* does an explicit regulation record target the promoter governing CDS e
Matched(rs, cs, e) ==
    /\ find_promoter_before(cs, e) # "None"
    /\ \E k \in 1..Len(rs) : Explicit(rs[k]) /\ rs[k].target = find_promoter_before(cs, e)

\* _add_constitutive_regulations(): one constitutive record for every
\* promoter/CDS pair left without a regulation record
RECURSIVE ConstitutiveFrom(_, _, _, _)
ConstitutiveFrom(rs, cs, cdss, j) ==
    IF j > Len(cdss) THEN rs
    ELSE ConstitutiveFrom(
            IF Matched(rs, cs, cdss[j]) THEN rs
            ELSE Append(rs, [source |-> "None",
                             target |-> find_promoter_before(cs, cdss[j]),
                             type |-> "constitutive",
                             cds |-> cdss[j].comp.id]),
            cs, cdss, j + 1)

add_constitutive_regulations(rs, cs) ==
    ConstitutiveFrom(rs, cs, SelectSeq(AllComponents(cs, 1), IsCds), 1)

\* variant: the constitutive step is left out
BuildTailNoConstitutive(regs, its, cs, constants) ==
    LET br == build_regulations(regs, its, cs, constants)
    IN  [unpaired_regulators |-> DetectUnpaired(regs, 1),
         raised |-> br.raised,
         regulations |-> br.regs]

\* variant: the constitutive step runs before the regulations are built
BuildTailConstitutiveFirst(regs, its, cs, constants) ==
    LET br == build_regulations(regs, its, cs, constants)
    IN  [unpaired_regulators |-> DetectUnpaired(regs, 1),
         raised |-> br.raised,
         regulations |-> add_constitutive_regulations(<<>>, cs) \o br.regs]

\* lines 615-617 of build(): what follows the block loop
BuildTail(regs, its, cs, constants) ==
    LET br == build_regulations(regs, its, cs, constants)
    IN  [unpaired_regulators |-> DetectUnpaired(regs, 1),
         raised |-> br.raised,
         regulations |-> IF br.raised THEN br.regs
                         ELSE add_constitutive_regulations(br.regs, cs)]

----------------------------------------------------------------------------
(* The builder of one request: parse_text_file line by line, then build() *)

----------------------------------------------------------------------------
(* circuit_model.py: simulate_circuit(builder)                              *)

\* find_upstream_promoter(comp), find_upstream_rbs(comp): the place of the
\* nearest part of the kind before the CDS in its circuit, 0 when there is none
find_upstream(cs, e, type) ==
    LET comps == cs[e.circuit].components
        before == {j \in 1..(e.at - 1) : comps[j].type = type}
    IN  IF before = {} THEN 0
        ELSE CHOOSE j \in before : \A j2 \in before : j2 <= j

\* the parameter read from the upstream part; a CDS with no such part takes
\* the fallback 1.0
UpstreamParameter(cs, e, type, field) ==
    LET j == find_upstream(cs, e, type)
    IN  IF j = 0 THEN R(1)
        ELSE IF field \in DOMAIN cs[e.circuit].components[j].parameters
        THEN cs[e.circuit].components[j].parameters[field]
        ELSE R(1)

\* variant: the translation rate is a factor of the production rate
kprodTranslated(prom_s, rbs_e, translation_rate) ==
    RMul(RMul(prom_s, rbs_e), translation_rate)

\* kprod = prom_s * rbs_e * 1.0; the translation rate is stored, not multiplied
kprod(prom_s, rbs_e, translation_rate) == RMul(RMul(prom_s, rbs_e), R(1))

\* k0 = 0.01 * kprod
k0(kp) == RMul(Rat(1, 100), kp)

\* find_cds_controlled_by(target_promoter): is CDS e governed by the promoter
ControlledBy(cs, e, promoter) ==
    promoter # "None" /\ find_promoter_before(cs, e) = promoter

\* the records that fill pars[kind] of CDS e, in the order of builder.regulations
RegulationsOn(cs, regs, e, types) ==
    SelectSeq(regs, LAMBDA r : r.type \in types /\ ControlledBy(cs, e, r.target))

\* pars[kind][source] = value for every record, a later record overwriting
RECURSIVE FillMap(_, _, _)
FillMap(rs, field, k) ==
    IF k = 0 THEN [s \in {} |-> R(0)]
    ELSE LET m == FillMap(rs, field, k - 1)
         IN  [s \in DOMAIN m \cup {rs[k].source} |->
                 IF s = rs[k].source THEN rs[k].parameters[field] ELSE m[s]]

RepressionTypes == {"transcriptional_repression", "self_repression"}

ActivationTypes == {"transcriptional_activation", "self_activation"}

\* cds_params[cds_id] for one CDS
CdsParams(cs, regs, e) ==
    LET kp == kprod(UpstreamParameter(cs, e, "promoter", "strength"),
                    UpstreamParameter(cs, e, "rbs", "efficiency"),
                    e.comp.parameters.translation_rate)
        rep == RegulationsOn(cs, regs, e, RepressionTypes)
        act == RegulationsOn(cs, regs, e, ActivationTypes)
        both == RegulationsOn(cs, regs, e, RepressionTypes \cup ActivationTypes)
    IN  [name |-> e.comp.name,
         kprod |-> kp,
         k0 |-> k0(kp),
         degradation |-> e.comp.parameters.degradation_rate,
         initial_conc |-> e.comp.parameters.init_conc,
         Kr |-> FillMap(rep, "Kd", Len(rep)),
         Ka |-> FillMap(act, "Kd", Len(act)),
         n |-> FillMap(both, "n", Len(both))]

\* comp['parameters'][key] raises KeyError for some CDS
MissingParameter(cs) ==
    LET cdss == SelectSeq(AllComponents(cs, 1), IsCds)
    IN  \E i \in 1..Len(cdss) :
           ~({"translation_rate", "degradation_rate", "init_conc"}
                \subseteq DOMAIN cdss[i].comp.parameters)

\* cds_list and cds_params: one dict per CDS of the circuits
BuildCdsParams(cs, regs) ==
    LET cdss == SelectSeq(AllComponents(cs, 1), IsCds)
    IN  [i \in 1..Len(cdss) |-> CdsParams(cs, regs, cdss[i])]

\* cds_list.index(source_cds): the first place of the name, 0 when it is absent
IndexOf(params, name) ==
    LET at == {i \in 1..Len(params) : params[i].name = name}
    IN  IF at = {} THEN 0 ELSE CHOOSE i \in at : \A i2 \in at : i <= i2

\* protein s regulates protein t
Regulates(params, s, t) ==
    \E name \in DOMAIN params[t].Kr \cup DOMAIN params[t].Ka :
        IndexOf(params, name) = s

\* has_regulatory_feedback: the regulation graph holds a cycle through at
\* least three proteins
has_regulatory_feedback(params) ==
    \E len \in 3..Len(params) :
        \E c \in [1..len -> 1..Len(params)] :
            /\ \A a, b \in 1..len : a # b => c[a] # c[b]
            /\ \A a \in 1..len : Regulates(params, c[a], c[(a % len) + 1])

\* variant: the supplied initial concentrations are used as they are
InitialStateAsSupplied(params) ==
    [i \in 1..Len(params) |-> params[i].initial_conc]

\* the initial conditions with symmetry breaking
InitialState(params) ==
    LET supplied == [i \in 1..Len(params) |-> params[i].initial_conc]
    IN  IF /\ Len(supplied) >= 3
           /\ has_regulatory_feedback(params)
           /\ \A i \in 1..Len(supplied) : supplied[i] = R(0)
        THEN <<R(1), Rat(1, 10), Rat(1, 20)>>
        ELSE [i \in 1..Len(supplied) |-> Rat(1, 100)]

\* Kr**n / (Kr**n + repressor_conc**n)
HillRepression(Kr, n, conc) ==
    RDiv(RPow(Kr, n.n), RAdd(RPow(Kr, n.n), RPow(conc, n.n)))

\* activator_conc**n / (Ka**n + activator_conc**n)
HillActivation(Ka, n, conc) ==
    RDiv(RPow(conc, n.n), RAdd(RPow(Ka, n.n), RPow(conc, n.n)))

\* np.prod(f_vals) over the sources of one map
RECURSIVE FactorProduct(_, _, _, _, _)
FactorProduct(params, pars, p, kind, sources) ==
    IF sources = {} THEN R(1)
    ELSE LET s == CHOOSE x \in sources : TRUE
             conc == p[IndexOf(params, s)]
             f == IF kind = "Kr" THEN HillRepression(pars.Kr[s], pars.n[s], conc)
                  ELSE HillActivation(pars.Ka[s], pars.n[s], conc)
         IN  RMul(f, FactorProduct(params, pars, p, kind, sources \ {s}))

\* rhs(p, t): dpdt[i] = k0 + kprod * f_prod - degradation * p[i]
rhs(params, p) ==
    [i \in 1..Len(params) |->
        LET pars == params[i]
            f_prod == RMul(FactorProduct(params, pars, p, "Kr", DOMAIN pars.Kr),
                           FactorProduct(params, pars, p, "Ka", DOMAIN pars.Ka))
        IN  RSub(RAdd(pars.k0, RMul(pars.kprod, f_prod)),
                 RMul(pars.degradation, p[i]))]

\* rhs cannot be evaluated at p: the state has the wrong length, or a source
\* is not in cds_list
RhsRaises(params, p) ==
    \/ Len(p) # Len(params)
    \/ \E i \in 1..Len(params) :
          \E name \in DOMAIN params[i].Kr \cup DOMAIN params[i].Ka :
              IndexOf(params, name) = 0

\* the initial state and sol = odeint(rhs, p0, t)
Integrate(params) ==
    LET p == InitialState(params)
    IN  [p0 |-> p, raised |-> RhsRaises(params, p)]

\* validateCellboard(cellboard): at least one CDS is required
validateCellboard(its) ==
    IF \E i \in 1..Len(its) : its[i].type = "cds"
    THEN [valid |-> TRUE, error |-> "None"]
    ELSE [valid |-> FALSE, error |-> "At least one CDS required"]

----------------------------------------------------------------------------
(* The request whose builder is followed *)

\* the thread whose builder is followed
BuilderThread == "t1"

\* the requests the builder specification draws from
BuildDials ==
    {EmptyDial,
     MakeDial(<<Absent, Absent, Given(R(0)), Absent, Absent>>)}

\* parse_text_file, one line: a component, or None for an empty line; a
\* promoter that follows a CDS of the open block starts a new circuit
ParseLine(line) ==
    /\ bpc = "parse"
    /\ Len(items) < MaxItems
    /\ LET brk == line.type = "promoter" /\ OpenBlockHasCds(items, Len(items))
           new == IF brk THEN <<NoneItem, line>> ELSE <<line>>
       IN  /\ items' = items \o new
           /\ regulators' = Register(regulators, line, Len(items) + Len(new))
           /\ parameters' = parameters \o [j \in 1..Len(new) |-> EmptyBag]
           /\ circuit_name' = circuit_name \o [j \in 1..Len(new) |-> "None"]
    /\ UNCHANGED <<circuits, regulations, unpaired_regulators, bpc>>
    /\ UNCHANGED resolverVars
    /\ UNCHANGED simulationVars
    /\ UNCHANGED frontendVars

Parse == \E line \in PartPool \cup {NoneItem} : ParseLine(line)

\* runSimulation posts the board; simulate() runs builder.build() and then
\* result = simulate_circuit(builder)
Build ==
    /\ bpc = "parse"
    /\ LET constants == Deref(heap, adjusted_constants[BuilderThread])
           st == BuildLoop([parameters |-> parameters, circuit_name |-> circuit_name,
                            circuits |-> circuits], items, 1, <<>>, constants)
           tail == BuildTail(regulators, items, st.circuits, constants)
       IN  /\ parameters' = st.parameters
           /\ circuit_name' = st.circuit_name
           /\ circuits' = st.circuits
           /\ unpaired_regulators' = tail.unpaired_regulators
           /\ regulations' = tail.regulations
           /\ bpc' = IF tail.raised THEN "raised" ELSE "done"
           /\ IF tail.raised \/ MissingParameter(st.circuits)
              THEN /\ response' = "error"
                   /\ UNCHANGED <<cds_params, p0, solver_calls>>
              ELSE LET params == BuildCdsParams(st.circuits, tail.regulations)
                       sol == Integrate(params)
                   IN  /\ cds_params' = params
                       /\ p0' = sol.p0
                       /\ solver_calls' = solver_calls + 1
                       /\ response' = IF sol.raised THEN "error" ELSE "success"
    /\ UNCHANGED <<items, regulators>>
    /\ UNCHANGED resolverVars
    /\ UNCHANGED frontendVars

\* runSimulationFromPlacedComponents with no component on the board: the
\* function throws before any request is made
RejectEmptyBoard ==
    /\ bpc = "parse"
    /\ items = <<>>
    /\ bpc' = "rejected"
    /\ response' = "No components placed on the board"
    /\ UNCHANGED <<items, regulators, parameters, circuit_name, circuits,
                   regulations, unpaired_regulators>>
    /\ UNCHANGED <<cds_params, p0, solver_calls>>
    /\ UNCHANGED resolverVars
    /\ UNCHANGED frontendVars

\* simulate() has resolved the request's parameters (lines 424-480) and has
\* made the builder from adjusted_constants (line 484)
InitBuild ==
    /\ \E dial \in BuildDials :
          /\ heap = ResolveAlone(DefaultHeap, dial, TRUE)
          /\ dial_data = [t \in Threads |-> IF t = BuilderThread THEN dial ELSE EmptyDial]
    /\ pc = [t \in Threads |-> IF t = BuilderThread THEN "build" ELSE "idle"]
    /\ apply_dial = [t \in Threads |-> t = BuilderThread]
    /\ adjusted_constants = [t \in Threads |-> COMPONENT_CONSTANTS]
    /\ component_overrides = [t \in Threads |-> <<>>]
    /\ idx = [t \in Threads |-> 1]
    /\ calls = 1
    /\ last = NoCall
    /\ items = <<>>
    /\ regulators = <<>>
    /\ parameters = <<>>
    /\ circuit_name = <<>>
    /\ circuits = <<>>
    /\ regulations = <<>>
    /\ unpaired_regulators = <<>>
    /\ bpc = "parse"
    /\ SimulationIdle
    /\ FrontendIdle

NextBuild == Parse \/ Build \/ RejectEmptyBoard

SpecBuild == InitBuild /\ [][NextBuild]_vars

----------------------------------------------------------------------------
(* The ODE stage of simulate_circuit on designs of several genes *)

\* how the genes of a design repress one another
Topologies == {"ring", "chain", "none"}

\* the gene whose protein represses gene i, 0 when gene i is unregulated
Repressor(topology, i, N) ==
    IF topology = "ring" THEN ((i + N - 2) % N) + 1
    ELSE IF topology = "chain" THEN i - 1
    ELSE 0

GeneName(i) == "cds_" \o ToString(i)

\* cds_params as built for N genes with the registry's promoter_1, rbs_1 and
\* CDS rates, the given initial concentrations and repressor constant
DesignParams(N, topology, conc, Kr) ==
    [i \in 1..N |->
        LET src == IF Repressor(topology, i, N) = 0 THEN {}
                   ELSE {GeneName(Repressor(topology, i, N))}
        IN  [name |-> GeneName(i),
             kprod |-> kprod(R(5), R(1), R(7)),
             k0 |-> k0(kprod(R(5), R(1), R(7))),
             degradation |-> R(1),
             initial_conc |-> conc[i],
             Kr |-> [x \in src |-> Kr],
             Ka |-> [x \in {} |-> R(0)],
             n |-> [x \in src |-> R(2)]]]

Designs ==
    UNION {{DesignParams(N, topology, conc, Kr) :
               conc \in [1..N -> {R(0), Rat(1, 100)}],
               topology \in Topologies,
               Kr \in {Rat(1, 2), R(1)}} : N \in 1..MaxProteins}

\* simulate_circuit has built cds_params and is about to choose p0
InitSolve ==
    /\ ResolverInit
    /\ items = <<>>
    /\ regulators = <<>>
    /\ parameters = <<>>
    /\ circuit_name = <<>>
    /\ circuits = <<>>
    /\ regulations = <<>>
    /\ unpaired_regulators = <<>>
    /\ bpc = "built"
    /\ cds_params \in Designs
    /\ p0 = <<>>
    /\ solver_calls = 0
    /\ response = "none"
    /\ FrontendIdle

\* the initial conditions are chosen and odeint is called
Solve ==
    /\ bpc = "built"
    /\ LET sol == Integrate(cds_params)
       IN  /\ p0' = sol.p0
           /\ solver_calls' = solver_calls + 1
           /\ response' = IF sol.raised THEN "error" ELSE "success"
    /\ bpc' = "solved"
    /\ UNCHANGED cds_params
    /\ UNCHANGED <<items, regulators, parameters, circuit_name, circuits,
                   regulations, unpaired_regulators>>
    /\ UNCHANGED resolverVars
    /\ UNCHANGED frontendVars

NextSolve == Solve

SpecSolve == InitSolve /\ [][NextSolve]_vars

----------------------------------------------------------------------------
(* eeprom.js: the connector system.  Objects are named by the number of     *)
(* their id (component_N, port_N, connector_N); 0 stands for null.  A       *)
(* lookup is the dict of the objects it holds, in insertion order, which is *)
(* the order of the ids.                                                    *)

\* delete obj[k]
DelItem(obj, k) == [x \in (DOMAIN obj) \ {k} |-> obj[x]]

\* array.splice(array.indexOf(x), 1) on an array holding x at most once
Without(array, x) == SelectSeq(array, LAMBDA e : e # x)

\* the least id of a non-empty set of ids: the first of Object.values
FirstId(ids) == CHOOSE i \in ids : \A j \in ids : i <= j

\* Outcome of a call: the manager it leaves and the exception it raised
Returned(m) == [m |-> m, thrown |-> "none"]
Raised(m, e) == [m |-> m, thrown |-> e]

\* GeneticConnectorEEPROM.remove(): this.dragElement.removeAttribute throws
\* a TypeError when dragElement is null
ConnectorRemove(m, c) ==
    LET k == m.connectorLookup[c]
        ports == [p \in DOMAIN m.portLookup |->
                    IF p \in {k.inputPort, k.outputPort}
                    THEN [m.portLookup[p] EXCEPT !.connectors = Without(@, c)]
                    ELSE m.portLookup[p]]
    IN  IF k.dragElement = "null"
        THEN Raised(m, "TypeError")
        ELSE Returned([m EXCEPT
                 !.portLookup = ports,
                 !.connectorLookup[c] =
                     [k EXCEPT !.staticPort = 0, !.inputPort = 0, !.outputPort = 0,
                               !.dragElement = "null"],
                 !.connectorPool = Append(@, c)])

\* connectors.forEach(connector => connector.remove())
RECURSIVE RemoveConnectors(_, _)
RemoveConnectors(m, connectors) ==
    IF connectors = <<>> THEN Returned(m)
    ELSE LET r == ConnectorRemove(m, Head(connectors))
         IN  IF r.thrown # "none" THEN r
             ELSE RemoveConnectors(r.m, Tail(connectors))

\* the ports of a component: [...this.inputPorts, ...this.outputPorts]
PortsOf(comp) == comp.inputPorts \o comp.outputPorts

RECURSIVE RemovePortConnectors(_, _)
RemovePortConnectors(m, ports) ==
    IF ports = <<>> THEN Returned(m)
    ELSE LET r == RemoveConnectors(m, m.portLookup[Head(ports)].connectors)
         IN  IF r.thrown # "none" THEN r
             ELSE RemovePortConnectors(r.m, Tail(ports))

RECURSIVE DeletePorts(_, _)
DeletePorts(lookup, ports) ==
    IF ports = <<>> THEN lookup
    ELSE DeletePorts(DelItem(lookup, Head(ports)), Tail(ports))

\* GeneticComponentEEPROM.remove()
ComponentRemove(m, id) ==
    LET ports == PortsOf(m.componentLookup[id])
        r == RemovePortConnectors(m, ports)
    IN  IF r.thrown # "none" THEN r
        ELSE Returned([r.m EXCEPT
                 !.portLookup = DeletePorts(@, ports),
                 !.componentLookup = DelItem(@, id)])

\* ConnectorManagerEEPROM.removeComponent(cell)
ManagerRemoveComponent(m, cell) ==
    LET found == {id \in DOMAIN m.componentLookup : m.componentLookup[id].cell = cell}
    IN  IF found = {} THEN Returned(m) ELSE ComponentRemove(m, FirstId(found))

\* ConnectorManagerEEPROM.addComponent(placedComponent, cell): the
\* constructor of GeneticComponentEEPROM takes an id and createPorts() makes
\* the output port of a Start component or the input port of an End component
AddComponent(m, type, cell) ==
    LET id == m.nextUid + 1
        portId == m.nextUid + 2
        isInput == type = "Repressor End"
        port == [component |-> id, isInput |-> isInput, connectors |-> <<>>]
        comp == [cell |-> cell, type |-> type,
                 inputPorts |-> IF isInput THEN <<portId>> ELSE <<>>,
                 outputPorts |-> IF isInput THEN <<>> ELSE <<portId>>]
    IN  [m EXCEPT !.nextUid = portId,
                  !.componentLookup = SetItem(@, id, comp),
                  !.portLookup = SetItem(@, portId, port)]

\* a connector as its constructor leaves it
NewConnector ==
    [inputPort |-> 0, outputPort |-> 0, staticPort |-> 0,
     dragElement |-> "null", isInput |-> FALSE]

\* GeneticConnectorEEPROM.init(port)
ConnectorInit(k, port, isInput) ==
    IF isInput
    THEN [k EXCEPT !.isInput = TRUE, !.staticPort = port, !.inputPort = port,
                   !.dragElement = "outputHandle"]
    ELSE [k EXCEPT !.isInput = FALSE, !.staticPort = port, !.outputPort = port,
                   !.dragElement = "inputHandle"]

\* ComponentPortEEPROM.createConnector(): the id of the connector it returns
CreatedConnector(m) ==
    IF Len(m.connectorPool) > 0
    THEN m.connectorPool[Len(m.connectorPool)]
    ELSE m.nextUid + 1

\* ComponentPortEEPROM.createConnector(): a pooled connector is reused,
\* otherwise one is constructed
CreateConnector(m, port) ==
    LET pooled == Len(m.connectorPool) > 0
        c == CreatedConnector(m)
        k == IF pooled /\ c \in DOMAIN m.connectorLookup
             THEN m.connectorLookup[c] ELSE NewConnector
    IN  [m EXCEPT
            !.nextUid = IF pooled THEN @ ELSE @ + 1,
            !.connectorPool = IF pooled THEN SubSeq(@, 1, Len(@) - 1) ELSE @,
            !.connectorLookup = SetItem(@, c, ConnectorInit(k, port, m.portLookup[port].isInput)),
            !.portLookup[port].connectors = Append(@, c)]

\* GeneticConnectorEEPROM.isValidConnection(targetPort)
isValidConnection(m, c, targetPort) ==
    LET k == m.connectorLookup[c]
        source == m.componentLookup[m.portLookup[k.staticPort].component]
        target == m.componentLookup[m.portLookup[targetPort].component]
    IN  /\ k.staticPort # 0
        /\ m.portLookup[k.staticPort].component # m.portLookup[targetPort].component
        /\ k.isInput # m.portLookup[targetPort].isInput
        /\ ~(source.type = "Repressor Start" /\ target.type # "Repressor End")
        /\ ~(source.type = "Repressor End" /\ target.type # "Repressor Start")

\* GeneticConnectorEEPROM.connectToPort(port)
ConnectToPort(m, c, port) ==
    LET k == m.connectorLookup[c]
        joined == [m EXCEPT
            !.connectorLookup[c] = IF k.isInput THEN [k EXCEPT !.outputPort = port]
                                   ELSE [k EXCEPT !.inputPort = port],
            !.portLookup[port].connectors =
                IF \E i \in 1..Len(@) : @[i] = c THEN @ ELSE Append(@, c)]
        j == joined.connectorLookup[c]
    IN  IF j.inputPort # 0 /\ j.outputPort # 0 /\ ~isValidConnection(joined, c, port)
        THEN ConnectorRemove(joined, c)
        ELSE Returned(joined)

\* placeHandle(): the first valid compatible port of the components at the
\* drop position, 0 if there is none
RECURSIVE FirstValidPort(_, _, _)
FirstValidPort(m, c, ports) ==
    IF ports = <<>> THEN 0
    ELSE IF isValidConnection(m, c, Head(ports)) THEN Head(ports)
    ELSE FirstValidPort(m, c, Tail(ports))

RECURSIVE TargetPort(_, _, _)
TargetPort(m, c, comps) ==
    IF comps = {} THEN 0
    ELSE LET id == FirstId(comps)
             comp == m.componentLookup[id]
             k == m.connectorLookup[c]
             compatible == IF k.isInput THEN comp.outputPorts ELSE comp.inputPorts
             found == IF id = m.portLookup[k.staticPort].component THEN 0
                      ELSE FirstValidPort(m, c, compatible)
         IN  IF found # 0 THEN found ELSE TargetPort(m, c, comps \ {id})

\* a drop position outside every cell
Nowhere == <<-1, -1>>

\* GeneticConnectorEEPROM.placeHandle() with the handle dropped over cell
\* position, or outside every component
PlaceHandle(m, c, position) ==
    LET comps == {id \in DOMAIN m.componentLookup : m.componentLookup[id].cell = position}
        targetPort == TargetPort(m, c, comps)
    IN  IF targetPort # 0 THEN ConnectToPort(m, c, targetPort)
        ELSE ConnectorRemove(m, c)

\* ConnectorManagerEEPROM.clearAll()
ClearAll(m) ==
    LET ids == DOMAIN m.connectorLookup
        order == [i \in 1..Cardinality(ids) |->
                     CHOOSE c \in ids : Cardinality({d \in ids : d < c}) = i - 1]
        r == RemoveConnectors(m, order)
        comps == DOMAIN r.m.componentLookup
        RECURSIVE RemoveComponents(_, _)
        RemoveComponents(mm, todo) ==
            IF todo = {} THEN Returned(mm)
            ELSE LET q == ComponentRemove(mm, FirstId(todo))
                 IN  IF q.thrown # "none" THEN q
                     ELSE RemoveComponents(q.m, todo \ {FirstId(todo)})
        q == RemoveComponents(r.m, comps)
    IN  IF r.thrown # "none" THEN r
        ELSE IF q.thrown # "none" THEN q
        ELSE Returned([q.m EXCEPT !.componentLookup = <<>>, !.portLookup = <<>>,
                                  !.connectorLookup = <<>>, !.connectorPool = <<>>])

----------------------------------------------------------------------------
(* script.js and eeprom.js: the design board.  A component object is a      *)
(* record; the same object pushed to two lists is the same record in both,  *)
(* told apart from every other object by its id field.                      *)

\* the component object literal of the cell click handler
ClickedComponent(type, number, cell, id) ==
    [type |-> type, number |-> number, strength |-> "norm",
     x |-> Num(cell[1]), y |-> Num(cell[2]), id |-> id,
     parameters |-> EmptyDial]

\* the component object literal of placeComponent: it has no parameters field
DroppedComponent(type, number, cell, id) ==
    [x |-> Num(cell[1]), y |-> Num(cell[2]), type |-> type, strength |-> "norm",
     id |-> id, number |-> number]

\* the stateComponent literal of createPlacedComponent: x and y are the
\* strings of cell.dataset
ScannedComponent(type, number, cell, id, instance) ==
    [type |-> type, number |-> number, strength |-> "norm", gene |-> "1",
     x |-> Str(cell[1]), y |-> Str(cell[2]), id |-> id,
     parameters |-> EmptyDial, componentInstance |-> instance]

\* comp.x === x && comp.y === y, x and y being the numbers parseInt returned
At(comp, cell) == StrictEq(comp.x, Num(cell[1])) /\ StrictEq(comp.y, Num(cell[2]))

\* c.x == x && c.y == y
LooselyAt(comp, cell) == LooseEq(comp.x, Num(cell[1])) /\ LooseEq(comp.y, Num(cell[2]))

\* list.findIndex(comp => comp.x === x && comp.y === y), counted from 1; 0 is -1
FindIndexAt(list, cell) ==
    IF \E i \in 1..Len(list) : At(list[i], cell)
    THEN CHOOSE i \in 1..Len(list) :
            At(list[i], cell) /\ \A j \in 1..(i - 1) : ~At(list[j], cell)
    ELSE 0

\* list.splice(index, 1)
Splice(list, index) ==
    [i \in 1..(Len(list) - 1) |-> IF i < index THEN list[i] ELSE list[i + 1]]

\* the first key of state.cellboard, in Object.entries order, whose list holds
\* a component at the cell; 0 if none does
RECURSIVE FirstKeyAt(_, _, _)
FirstKeyAt(cellboard, cell, k) ==
    IF k > Len(CellboardKeys) THEN 0
    ELSE IF FindIndexAt(cellboard[CellboardKeys[k]], cell) # 0 THEN k
    ELSE FirstKeyAt(cellboard, cell, k + 1)

\* the cell after updateCellDisplay of script.js: the display element
\* remembers the type, the number and the component object handed to the
\* parameter modal
DisplayedCell(type, number, component) ==
    [placed |-> [type |-> type, number |-> number, component |-> component],
     filled |-> TRUE, has_component |-> TRUE]

\* state.componentCounts[baseType] after the increment
Counted(st, type) == st.componentCounts[BaseType(type)] + 1

\* removeComponent(x, y) of either page: the connector system first, then
\* placedComponents, then state.cellboard only if placedComponents held
\* nothing at (x, y); the cell is cleared only if something was removed
removeComponent(st, cs, m, cell) ==
    LET r == ManagerRemoveComponent(m, cell)
        index == FindIndexAt(st.placedComponents, cell)
        k == FirstKeyAt(st.cellboard, cell, 1)
        removed == index # 0 \/ k # 0
        st1 == IF index # 0
               THEN [st EXCEPT !.placedComponents = Splice(@, index)]
               ELSE IF k # 0
               THEN [st EXCEPT !.cellboard[CellboardKeys[k]] =
                        Splice(@, FindIndexAt(@, cell))]
               ELSE st
    IN  IF r.thrown # "none"
        THEN [state |-> st, cells |-> cs, m |-> r.m, thrown |-> r.thrown]
        ELSE [state |-> st1,
              cells |-> IF removed THEN [cs EXCEPT ![cell] = EmptyCell] ELSE cs,
              m |-> r.m, thrown |-> "none"]

\* setupGlobalClicks: a click outside the palette and the board clears the
\* selection; whether a control lies outside them is the page's markup, so
\* a click on a control leaves either state
AfterGlobalClick(st) == {st, [st EXCEPT !.currentComponent = "null"]}

\* the pointer is free: no connector is being dragged
PointerFree == ~ConnectorManagerEEPROM.isDragging

\* a palette component is clicked: state.currentComponent is set
SelectComponent(type) ==
    /\ PointerFree
    /\ state' = [state EXCEPT !.currentComponent = type]
    /\ thrown' = "none"
    /\ UNCHANGED <<page, cells, ConnectorManagerEEPROM, toggle, request, now>>
    /\ UNCHANGED <<backendVars, deviceVars>>

\* registerComponentWithConnectorSystem(component, cell)
registerComponentWithConnectorSystem(m, type, cell) ==
    IF type \in REGULATOR_TYPES THEN AddComponent(m, type, cell) ELSE m

\* the ids a placement of the type takes from ConnectorManagerEEPROM.nextUid
UidsFor(type) == IF type \in REGULATOR_TYPES THEN 2 ELSE 0

\* script.js: click on a cell with a component selected
DialCellClick(cell) ==
    /\ page = "dial"
    /\ PointerFree
    /\ state.currentComponent # "null"
    /\ now < MaxPlaced
    /\ ConnectorManagerEEPROM.nextUid + UidsFor(state.currentComponent) <= MaxUid
    /\ LET type == state.currentComponent
           r == IF cells[cell].has_component
                THEN ManagerRemoveComponent(ConnectorManagerEEPROM, cell)
                ELSE Returned(ConnectorManagerEEPROM)
           number == Counted(state, type)
           component == ClickedComponent(type, number, cell, now + 1)
       IN  /\ state' = [state EXCEPT
                  !.componentCounts[BaseType(type)] = number,
                  !.placedComponents = Append(@, component),
                  !.cellboard[type] = Append(@, component),
                  !.currentComponent = "null"]
           /\ cells' = [cells EXCEPT ![cell] = DisplayedCell(type, number, now + 1)]
           /\ ConnectorManagerEEPROM' = registerComponentWithConnectorSystem(r.m, type, cell)
           /\ thrown' = r.thrown
    /\ now' = now + 1
    /\ UNCHANGED <<page, toggle, request>>
    /\ UNCHANGED <<backendVars, deviceVars>>

\* updateCellDisplay of script.js without componentData: the object it finds
\* for the display, 0 if it finds none
FoundForDisplay(st, cell) ==
    LET index == FindIndexAt(st.placedComponents, cell)
        k == FirstKeyAt(st.cellboard, cell, 1)
    IN  IF index # 0 THEN st.placedComponents[index].id
        ELSE IF k # 0
        THEN LET list == st.cellboard[CellboardKeys[k]]
             IN  list[FindIndexAt(list, cell)].id
        ELSE 0

\* placeComponent(x, y, componentType) of script.js
placeComponent(st, cs, cell, type, id) ==
    LET number == Counted(st, type)
        st1 == [st EXCEPT
                   !.componentCounts[BaseType(type)] = number,
                   !.cellboard[type] =
                       Append(@, DroppedComponent(type, number, cell, id))]
    IN  [state |-> st1,
         cells |-> [cs EXCEPT ![cell] =
                      DisplayedCell(type, number, FoundForDisplay(st1, cell))]]

\* script.js: a palette component is dropped on a cell
Drop(cell, type) ==
    /\ page = "dial"
    /\ PointerFree
    /\ now < MaxPlaced
    /\ LET r == IF cells[cell].filled
                THEN removeComponent(state, cells, ConnectorManagerEEPROM, cell)
                ELSE [state |-> state, cells |-> cells,
                      m |-> ConnectorManagerEEPROM, thrown |-> "none"]
           p == placeComponent(r.state, r.cells, cell, type, now + 1)
       IN  IF r.thrown # "none"
           THEN /\ state' = r.state
                /\ cells' = r.cells
                /\ ConnectorManagerEEPROM' = r.m
                /\ thrown' = r.thrown
           ELSE /\ state' = p.state
                /\ cells' = p.cells
                /\ ConnectorManagerEEPROM' = r.m
                /\ thrown' = "none"
    /\ now' = now + 1
    /\ UNCHANGED <<page, toggle, request>>
    /\ UNCHANGED <<backendVars, deviceVars>>

\* either page: right click on a cell
ContextMenu(cell) ==
    /\ PointerFree
    /\ LET r == removeComponent(state, cells, ConnectorManagerEEPROM, cell)
       IN  /\ state' = r.state
           /\ cells' = r.cells
           /\ ConnectorManagerEEPROM' = r.m
           /\ thrown' = r.thrown
    /\ UNCHANGED <<page, toggle, request, now>>
    /\ UNCHANGED <<backendVars, deviceVars>>

\* clearBoard of script.js: the state first, then the connector system, and
\* the cells only after clearAll() has returned
DialClearBoard ==
    /\ page = "dial"
    /\ PointerFree
    /\ LET r == ClearAll(ConnectorManagerEEPROM)
       IN  /\ state' \in AfterGlobalClick([state EXCEPT
                  !.cellboard = [t \in BoardTypes |-> <<>>],
                  !.componentCounts = [b \in DOMAIN @ |-> 0],
                  !.placedComponents = <<>>])
           /\ ConnectorManagerEEPROM' = r.m
           /\ thrown' = r.thrown
           /\ cells' = IF r.thrown # "none" THEN cells
                       ELSE [c \in Cells |-> EmptyCell]
    /\ UNCHANGED <<page, toggle, request, now>>
    /\ UNCHANGED <<backendVars, deviceVars>>

\* mousedown on a port element: startConnectorDrag(port)
StartConnectorDrag(port) ==
    /\ PointerFree
    /\ port \in DOMAIN ConnectorManagerEEPROM.portLookup
    /\ \/ Len(ConnectorManagerEEPROM.connectorPool) > 0
       \/ ConnectorManagerEEPROM.nextUid < MaxUid
    /\ ConnectorManagerEEPROM' =
          [CreateConnector(ConnectorManagerEEPROM, port) EXCEPT
              !.isDragging = TRUE,
              !.dragTarget = CreatedConnector(ConnectorManagerEEPROM)]
    /\ thrown' = "none"
    /\ UNCHANGED <<page, state, cells, toggle, request, now>>
    /\ UNCHANGED <<backendVars, deviceVars>>

\* mouseup with the handle over a cell or over no component: onDragEnd()
MouseUp(position) ==
    /\ ConnectorManagerEEPROM.isDragging
    /\ ConnectorManagerEEPROM.dragTarget # 0
    /\ LET r == PlaceHandle(ConnectorManagerEEPROM,
                            ConnectorManagerEEPROM.dragTarget, position)
       IN  /\ ConnectorManagerEEPROM' =
                 IF r.thrown # "none" THEN r.m
                 ELSE [r.m EXCEPT !.isDragging = FALSE, !.dragTarget = 0]
           /\ thrown' = r.thrown
    /\ UNCHANGED <<page, state, cells, toggle, request, now>>
    /\ UNCHANGED <<backendVars, deviceVars>>

\* updateCellDisplay of eeprom.js: the object it finds for the display is the
\* first of state.cellboard at the cell; the class has-component is not added
FoundInCellboard(st, cell) ==
    LET k == FirstKeyAt(st.cellboard, cell, 1)
    IN  IF k # 0
        THEN LET list == st.cellboard[CellboardKeys[k]]
             IN  list[FindIndexAt(list, cell)].id
        ELSE 0

\* list.findIndex(c => c.x == x && c.y == y), counted from 1; 0 is -1
FindIndexLooselyAt(list, cell) ==
    IF \E i \in 1..Len(list) : LooselyAt(list[i], cell)
    THEN CHOOSE i \in 1..Len(list) :
            LooselyAt(list[i], cell) /\ \A j \in 1..(i - 1) : ~LooselyAt(list[j], cell)
    ELSE 0

\* eeprom.js: click on a cell with a component selected
HardwareCellClick(cell) ==
    /\ page = "hardware"
    /\ PointerFree
    /\ state.currentComponent # "null"
    /\ now < MaxPlaced
    /\ ConnectorManagerEEPROM.nextUid + UidsFor(state.currentComponent) <= MaxUid
    /\ LET type == state.currentComponent
           existingIndex == FindIndexLooselyAt(state.placedComponents, cell)
           st0 == IF cells[cell].has_component /\ existingIndex # 0
                  THEN [state EXCEPT !.placedComponents = Splice(@, existingIndex)]
                  ELSE state
           number == Counted(st0, type)
           component == ClickedComponent(type, number, cell, now + 1)
           st1 == [st0 EXCEPT
                      !.componentCounts[BaseType(type)] = number,
                      !.placedComponents = Append(@, component),
                      !.cellboard[type] = Append(@, component),
                      !.currentComponent = "null"]
       IN  /\ state' = st1
           /\ cells' = [cells EXCEPT ![cell] =
                  [placed |-> [type |-> type, number |-> number,
                               component |-> FoundInCellboard(st1, cell)],
                   filled |-> TRUE, has_component |-> FALSE]]
           /\ ConnectorManagerEEPROM' = registerComponentWithConnectorSystem(ConnectorManagerEEPROM, type, cell)
    /\ thrown' = "none"
    /\ now' = now + 1
    /\ UNCHANGED <<page, toggle, request>>
    /\ UNCHANGED <<backendVars, deviceVars>>

\* clearBoard of eeprom.js, the confirm() answered yes: the display elements
\* and the class filled go, the two lists are emptied; componentCounts, the
\* class has-component and the connector system are left as they are
HardwareClearBoard ==
    /\ page = "hardware"
    /\ PointerFree
    /\ cells' = [c \in Cells |-> [cells[c] EXCEPT !.placed = NoDisplay, !.filled = FALSE]]
    /\ state' \in AfterGlobalClick([state EXCEPT
                  !.placedComponents = <<>>,
                  !.cellboard = [t \in BoardTypes |-> <<>>]])
    /\ thrown' = "none"
    /\ UNCHANGED <<page, ConnectorManagerEEPROM, toggle, request, now>>
    /\ UNCHANGED <<backendVars, deviceVars>>

\* a cellboard as /interpret_hardware returns it: at most one type per cell
ScannedBoards == [Cells -> BoardTypes \cup {"none"}]

\* the components of a scanned cellboard in the order populateBoardFromCellboard
\* visits them: Object.entries(cellboard), then each list
RECURSIVE CellsInOrder(_)
CellsInOrder(cs) ==
    IF cs = {} THEN <<>>
    ELSE LET c == CHOOSE c \in cs : \A d \in cs : c[1] <= d[1]
         IN  <<c>> \o CellsInOrder(cs \ {c})

RECURSIVE Visited(_, _)
Visited(board, k) ==
    IF k > Len(CellboardKeys) THEN <<>>
    ELSE CellsInOrder({c \in Cells : board[c] = CellboardKeys[k]}) \o Visited(board, k + 1)

\* createPlacedComponent(cell, component); the display element reads the
\* number from state.componentCounts when it is clicked, which 0 stands for
createPlacedComponent(b, cell, type) ==
    LET number == Counted(b.state, type)
        instance == IF type \in REGULATOR_TYPES THEN b.m.nextUid + 1 ELSE 0
        stateComponent == ScannedComponent(type, number, cell, b.now + 1, instance)
    IN  [state |-> [b.state EXCEPT
                       !.componentCounts[BaseType(type)] = number,
                       !.placedComponents = Append(@, stateComponent)],
         cells |-> [b.cells EXCEPT ![cell] =
                      [placed |-> [type |-> type, number |-> 0,
                                   component |-> b.now + 1],
                       filled |-> TRUE, has_component |-> TRUE]],
         m |-> registerComponentWithConnectorSystem(b.m, type, cell),
         now |-> b.now + 1]

RECURSIVE CreateAll(_, _, _)
CreateAll(b, board, todo) ==
    IF todo = <<>> THEN b
    ELSE CreateAll(createPlacedComponent(b, Head(todo), board[Head(todo)]),
                   board, Tail(todo))

\* regulatorPairs[key][position] = comp over state.placedComponents: the
\* last component of the type
LastOfType(list, type) ==
    LET found == {i \in 1..Len(list) : list[i].type = type}
    IN  IF found = {} THEN 0
        ELSE list[CHOOSE i \in found : \A j \in found : j <= i].componentInstance

\* autoConnectRegulatorPairs()
autoConnectRegulatorPairs(st, m) ==
    LET startComp == LastOfType(st.placedComponents, "Repressor Start")
        endComp == LastOfType(st.placedComponents, "Repressor End")
    IN  IF startComp = 0 \/ endComp = 0 THEN Returned(m)
        ELSE LET outputPort == m.componentLookup[startComp].outputPorts[1]
                 inputPort == m.componentLookup[endComp].inputPorts[1]
                 connectors == m.portLookup[outputPort].connectors
                 alreadyConnected ==
                     \E i \in 1..Len(connectors) :
                         \/ m.connectorLookup[connectors[i]].inputPort = inputPort
                         \/ m.connectorLookup[connectors[i]].outputPort = inputPort
             IN  IF alreadyConnected THEN Returned(m)
                 ELSE ConnectToPort(CreateConnector(m, outputPort),
                                    CreatedConnector(m), inputPort)

\* the ids populateBoardFromCellboard takes from nextUid for a board
UidsForBoard(board) ==
    LET regs == {c \in Cells : board[c] \in REGULATOR_TYPES}
        paired == /\ \E c \in Cells : board[c] = "Repressor Start"
                  /\ \E c \in Cells : board[c] = "Repressor End"
    IN  2 * Cardinality(regs) + (IF paired THEN 1 ELSE 0)

\* parseLogWithBackend() with /interpret_hardware answering success and a
\* cellboard that is not empty: populateBoardFromCellboard(result.cellboard),
\* then runSimulationFromCellboard(result.cellboard)
Populated(board) ==
    /\ page = "hardware"
    /\ PointerFree
    /\ \E c \in Cells : board[c] # "none"
    /\ now + Cardinality({c \in Cells : board[c] # "none"}) <= MaxPlaced
    /\ ConnectorManagerEEPROM.nextUid + UidsForBoard(board) <= MaxUid
    /\ LET b0 == [state |-> [state EXCEPT
                                !.placedComponents = <<>>,
                                !.componentCounts = [k \in DOMAIN @ |-> 0]],
                  cells |-> [c \in Cells |->
                                [cells[c] EXCEPT !.placed = NoDisplay,
                                                 !.has_component = FALSE]],
                  m |-> ConnectorManagerEEPROM,
                  now |-> now]
           b == CreateAll(b0, board, Visited(board, 1))
           r == autoConnectRegulatorPairs(b.state, b.m)
       IN  /\ state' = b.state
           /\ cells' = b.cells
           /\ now' = b.now
           /\ ConnectorManagerEEPROM' = r.m
           /\ thrown' = r.thrown
           /\ request' = [sent |-> TRUE,
                          cellboard |-> [t \in BoardTypes |->
                              [i \in 1..Len(CellsInOrder({c \in Cells : board[c] = t})) |->
                                  [x |-> Num(CellsInOrder({c \in Cells : board[c] = t})[i][1]),
                                   y |-> Num(0), type |-> t, strength |-> "norm",
                                   gene |-> "Gene 1"]]]]
    /\ UNCHANGED <<page, toggle>>

\* the same outside a scan: the parsed board is taken as given
PopulateBoard(board) ==
    /\ Populated(board)
    /\ UNCHANGED <<backendVars, deviceVars>>

----------------------------------------------------------------------------
(* The parameter modal, the enable-dial toggle and the Run Simulation button *)

global_translation_rate == Key("global", "", "_translation_rate")
temperature_factor == Key("temperature", "", "_factor")
resource_availability == Key("resource", "", "_availability")

\* the five global multipliers of the dial form
GlobalKeys ==
    {global_transcription_rate, global_translation_rate, global_degradation_rate,
     temperature_factor, resource_availability}

\* the dial object sent when the toggle is off
DefaultDial == [k \in GlobalKeys |-> R(1)]

\* what the number inputs of #dial-form may hold when a simulation is run
FormInputs ==
    {DefaultDial, [DefaultDial EXCEPT ![global_transcription_rate] = Rat(3, 2)]}

\* `${num}` of a component number
NumStr(n) == <<"1", "2", "3", "4", "5", "6", "7", "8">>[n]

\* getComponentParameters(componentType, componentNumber): the id of the
\* first parameter of the modal
ParamId(type, number) ==
    IF type = "CDS" THEN Key("cds", NumStr(number), "_translation_rate")
    ELSE Key("repressor", NumStr(number), "_Kr")

\* the value typed into the modal's input
CustomValue == R(2)

\* component.parameters[paramId] = value on the objects named by ids,
\* wherever the lists hold them
SetOn(list, ids, paramId, value) ==
    [i \in 1..Len(list) |->
        IF list[i].id \in ids
        THEN SetItem(list[i], "parameters",
                     SetItem(IF "parameters" \in DOMAIN list[i]
                             THEN list[i].parameters ELSE EmptyDial,
                             paramId, value))
        ELSE list[i]]

WithParameter(st, ids, paramId, value) ==
    [st EXCEPT !.placedComponents = SetOn(@, ids, paramId, value),
               !.cellboard = [t \in BoardTypes |-> SetOn(@[t], ids, paramId, value)]]

PairType(type) ==
    IF type = "Repressor Start" THEN "Repressor End"
    ELSE IF type = "Repressor End" THEN "Repressor Start"
    ELSE "none"

\* syncRegulatorPair of script.js: every component of the pair type with the
\* same number, in state.cellboard and in state.placedComponents
DialPaired(st, type, number) ==
    LET pairType == PairType(type)
    IN  IF pairType = "none" THEN {}
        ELSE {st.cellboard[pairType][i].id : i \in
                 {j \in 1..Len(st.cellboard[pairType]) :
                     st.cellboard[pairType][j].number = number}}
             \cup
             {st.placedComponents[i].id : i \in
                 {j \in 1..Len(st.placedComponents) :
                     /\ st.placedComponents[j].type = pairType
                     /\ st.placedComponents[j].number = number}}

\* syncRegulatorPair of eeprom.js: the first component of the pair type with
\* the same number in state.cellboard, else the first in state.placedComponents
HardwarePaired(st, type, number) ==
    LET pairType == PairType(type)
        inBoard == IF pairType = "none" THEN {}
                   ELSE {j \in 1..Len(st.cellboard[pairType]) :
                            st.cellboard[pairType][j].number = number}
        inPlaced == {j \in 1..Len(st.placedComponents) :
                        /\ st.placedComponents[j].type = pairType
                        /\ st.placedComponents[j].number = number}
    IN  IF pairType = "none" THEN {}
        ELSE IF inBoard # {} THEN {st.cellboard[pairType][FirstId(inBoard)].id}
        ELSE IF inPlaced # {} THEN {st.placedComponents[FirstId(inPlaced)].id}
        ELSE {}

\* a value is typed into the parameter modal opened from the cell's display
SetParameter(cell) ==
    /\ PointerFree
    /\ cells[cell].placed.type # "none"
    /\ cells[cell].placed.component # 0
    /\ LET type == cells[cell].placed.type
           number == IF cells[cell].placed.number # 0 THEN cells[cell].placed.number
                     ELSE state.componentCounts[BaseType(type)]
           paired == IF page = "dial" THEN DialPaired(state, type, number)
                     ELSE HardwarePaired(state, type, number)
       IN  state' \in AfterGlobalClick(
                         WithParameter(state, {cells[cell].placed.component} \cup paired,
                                       ParamId(type, number), CustomValue))
    /\ thrown' = "none"
    /\ UNCHANGED <<page, cells, ConnectorManagerEEPROM, toggle, request, now>>
    /\ UNCHANGED <<backendVars, deviceVars>>

\* the enable-dial checkbox is clicked
ToggleDial ==
    /\ PointerFree
    /\ toggle' = ~toggle
    /\ state' \in AfterGlobalClick(state)
    /\ thrown' = "none"
    /\ UNCHANGED <<page, cells, ConnectorManagerEEPROM, request, now>>
    /\ UNCHANGED <<backendVars, deviceVars>>

\* the parameters objects of a list of components, merged in order
RECURSIVE MergeParameters(_, _)
MergeParameters(dialData, list) ==
    IF list = <<>> THEN dialData
    ELSE LET comp == Head(list)
             params == IF "parameters" \in DOMAIN comp THEN comp.parameters ELSE EmptyDial
         IN  MergeParameters([k \in (DOMAIN dialData) \cup (DOMAIN params) |->
                                 IF k \in DOMAIN params THEN params[k] ELSE dialData[k]],
                             Tail(list))

RECURSIVE MergeCellboard(_, _, _)
MergeCellboard(dialData, cellboard, k) ==
    IF k > Len(CellboardKeys) THEN dialData
    ELSE MergeCellboard(MergeParameters(dialData, cellboard[CellboardKeys[k]]),
                        cellboard, k + 1)

\* collectDialParameters() of script.js
collectDialParameters(form, st) == MergeCellboard(form, st.cellboard, 1)

\* runSimulation() of script.js up to the fetch
runSimulation(form) ==
    /\ page = "dial"
    /\ PointerFree
    /\ request' = [sent |-> TRUE,
                   cellboard |-> state.cellboard,
                   dial |-> IF toggle THEN collectDialParameters(form, state)
                            ELSE DefaultDial,
                   apply_dial |-> toggle]
    /\ state' \in AfterGlobalClick(state)
    /\ thrown' = "none"
    /\ UNCHANGED <<page, cells, ConnectorManagerEEPROM, toggle, now>>
    /\ UNCHANGED <<backendVars, deviceVars>>

\* existingComponent of runSimulationFromPlacedComponents: the index pair of
\* the object found for a cell, in state.placedComponents first
ExistingParameters(st, cell) ==
    LET index == FindIndexAt(st.placedComponents, cell)
        k == FirstKeyAt(st.cellboard, cell, 1)
        found == IF index # 0 THEN <<st.placedComponents[index]>>
                 ELSE IF k # 0
                 THEN <<st.cellboard[CellboardKeys[k]]
                          [FindIndexAt(st.cellboard[CellboardKeys[k]], cell)]>>
                 ELSE <<>>
    IN  IF found # <<>> /\ "parameters" \in DOMAIN found[1]
        THEN <<found[1].parameters>> ELSE <<>>

\* the cellboard runSimulationFromPlacedComponents builds from the display
\* elements, in document order
RECURSIVE FromDOM(_, _, _, _)
FromDOM(st, cs, todo, acc) ==
    IF todo = <<>> THEN acc
    ELSE LET cell == Head(todo)
             type == cs[cell].placed.type
             found == ExistingParameters(st, cell)
             base == [x |-> Num(cell[1]), y |-> Num(cell[2]), type |-> type,
                      strength |-> "norm", number |-> Len(acc[type]) + 1]
             componentData == IF found # <<>>
                              THEN SetItem(base, "parameters", found[1])
                              ELSE base
         IN  FromDOM(st, cs, Tail(todo),
                     [acc EXCEPT ![type] = Append(@, componentData)])

\* runSimulationFromPlacedComponents() of eeprom.js up to the fetch; with no
\* display element on the board it throws into its own catch before the fetch
runSimulationFromPlacedComponents(form) ==
    /\ page = "hardware"
    /\ PointerFree
    /\ LET dom == CellsInOrder({c \in Cells : cells[c].placed.type # "none"})
           cellboard == FromDOM(state, cells, dom, [t \in BoardTypes |-> <<>>])
       IN  IF dom = <<>> THEN UNCHANGED request
           ELSE request' = [sent |-> TRUE,
                            cellboard |-> cellboard,
                            dial |-> IF toggle THEN MergeCellboard(form, cellboard, 1)
                                     ELSE DefaultDial,
                            apply_dial |-> toggle]
    /\ state' \in AfterGlobalClick(state)
    /\ thrown' = "none"
    /\ UNCHANGED <<page, cells, ConnectorManagerEEPROM, toggle, now>>
    /\ UNCHANGED <<backendVars, deviceVars>>

----------------------------------------------------------------------------
(* The board of either page under the user's hands *)

InitBoard ==
    /\ ResolverInit
    /\ BuilderIdle
    /\ DeviceIdle
    /\ page \in {"dial", "hardware"}
    /\ state = StateAtLoad
    /\ cells = [c \in Cells |-> EmptyCell]
    /\ ConnectorManagerEEPROM = ManagerAtLoad
    /\ thrown = "none"
    /\ toggle = FALSE
    /\ request = NoRequest
    /\ now = 0

Place ==
    \/ \E type \in BoardTypes : SelectComponent(type)
    \/ \E cell \in Cells : DialCellClick(cell)
    \/ \E cell \in Cells : HardwareCellClick(cell)
    \/ \E cell \in Cells, type \in BoardTypes : Drop(cell, type)
    \/ \E board \in ScannedBoards : PopulateBoard(board)

Remove ==
    \/ \E cell \in Cells : ContextMenu(cell)
    \/ DialClearBoard
    \/ HardwareClearBoard

Connect ==
    \/ \E port \in 1..MaxUid : StartConnectorDrag(port)
    \/ \E position \in Cells \cup {Nowhere} : MouseUp(position)

NextBoard == Place \/ Remove \/ Connect

SpecBoard == InitBoard /\ [][NextBoard]_vars

----------------------------------------------------------------------------
(* The parameters of the placed components and the simulation requests *)

InitSimulate ==
    /\ ResolverInit
    /\ BuilderIdle
    /\ DeviceIdle
    /\ page \in {"dial", "hardware"}
    /\ state = StateAtLoad
    /\ cells = [c \in Cells |-> EmptyCell]
    /\ ConnectorManagerEEPROM = ManagerAtLoad
    /\ thrown = "none"
    /\ toggle \in BOOLEAN
    /\ request = NoRequest
    /\ now = 0

Edit ==
    \/ \E cell \in Cells : SetParameter(cell)
    \/ ToggleDial

Run ==
    \/ \E form \in FormInputs : runSimulation(form)
    \/ \E form \in FormInputs : runSimulationFromPlacedComponents(form)

NextSimulate == Place \/ Edit \/ Run

SpecSimulate == InitSimulate /\ [][NextSimulate]_vars

----------------------------------------------------------------------------
(* The serial connection of the hardware page: connectToPort and            *)
(* disconnectPort of eeprom.js, one action per await.  An invocation is a   *)
(* click on btnConnect; between two awaits it runs without interruption.    *)

Invocations == 1..MaxClicks

\* the buttons as connectToPort's catch block and disconnectPort leave them
ResetUI == [btnConnect |-> [disabled |-> FALSE], btnGetBoard |-> [disabled |-> TRUE]]

\* the buttons after a completed handshake
ConnectedUI == [btnConnect |-> [disabled |-> TRUE], btnGetBoard |-> [disabled |-> FALSE]]

Awaiting(i, where) == invocation[i].pc = where

Goto(i, where, armed) ==
    invocation' = [invocation EXCEPT ![i] = [@ EXCEPT !.pc = where, !.armed = armed]]

\* the first await of the try block: selectedPort.close() when the port is
\* readable, selectedPort.open() otherwise
TryBlock(d) == IF d.opened THEN "close" ELSE "open"

\* connectToPort from `isConnecting = true` to its next await; `selected`
\* tells whether the dropdown names a port
Attempt(i, s, d, b) ==
    /\ serial' = [s EXCEPT !.isConnecting = TRUE]
    /\ device' = d
    /\ buttons' = b
    /\ \E selected \in BOOLEAN :
          invocation' = [invocation EXCEPT ![i] =
              [@ EXCEPT !.pc = IF selected THEN TryBlock(d) ELSE "requestPort",
                        !.set = TRUE, !.armed = TRUE]]

\* the catch block of connectToPort
Catch(i, s, d) ==
    /\ serial' = [s EXCEPT !.port = "null", !.isConnecting = FALSE]
    /\ device' = d
    /\ buttons' = ResetUI
    /\ Goto(i, "returned", FALSE)

\* the tail of disconnectPort, after its try/catch, and connectToPort's
\* continuation
Disconnected(i, s, d) ==
    Attempt(i, [s EXCEPT !.port = "null", !.isConnecting = FALSE], d, ResetUI)

\* disconnectPort after the reader is dealt with: writer.close() if a writer
\* is held, then port.close(), a TypeError once port is null
AfterReader(i, s) ==
    IF s.writer # "null"
    THEN /\ serial' = s
         /\ Goto(i, "writer.close", invocation[i].armed)
         /\ UNCHANGED <<device, buttons>>
    ELSE IF s.port # "null"
    THEN /\ serial' = s
         /\ Goto(i, "port.close", invocation[i].armed)
         /\ UNCHANGED <<device, buttons>>
    ELSE Disconnected(i, s, device)

AfterWriter(i, s) ==
    IF s.port # "null"
    THEN /\ serial' = s
         /\ Goto(i, "port.close", invocation[i].armed)
         /\ UNCHANGED <<device, buttons>>
    ELSE Disconnected(i, s, device)

\* reader.cancel() or the closing of the port ends the stream: the pending
\* read of its readLoop resolves with done, and the loop breaks
Ended(st) == NoStream

\* click on btnConnect: connectToPort up to its first await
connectToPort(i) ==
    /\ Awaiting(i, "idle")
    /\ \A j \in Invocations : j < i => ~Awaiting(j, "idle")
    /\ ~buttons.btnConnect.disabled
    /\ IF serial.isConnecting
       THEN /\ Goto(i, "returned", FALSE)
            /\ UNCHANGED <<serial, device, buttons>>
       ELSE IF serial.port # "null"
       THEN IF serial.reader # "null"
            THEN /\ Goto(i, "reader.cancel", FALSE)
                 /\ UNCHANGED <<serial, device, buttons>>
            ELSE AfterReader(i, serial)
       ELSE Attempt(i, serial, device, buttons)
    /\ UNCHANGED <<backendVars, boardVars, scanVars, readerVars>>

\* disconnectPort: await reader.cancel() settles
ReaderCancel(i) ==
    /\ Awaiting(i, "reader.cancel")
    /\ \/ /\ AfterReader(i, [serial EXCEPT !.reader = "null"])
          /\ stream' = Ended(stream)
       \/ /\ Disconnected(i, serial, device)
          /\ UNCHANGED stream
    /\ UNCHANGED <<backendVars, boardVars, scanVars, lineBuffer>>

\* disconnectPort: await writer.close() settles
WriterClose(i) ==
    /\ Awaiting(i, "writer.close")
    /\ \/ AfterWriter(i, [serial EXCEPT !.writer = "null"])
       \/ Disconnected(i, serial, device)
    /\ UNCHANGED <<backendVars, boardVars, scanVars, readerVars>>

\* disconnectPort: await port.close() settles
PortClose(i) ==
    /\ Awaiting(i, "port.close")
    /\ \/ /\ Disconnected(i, serial, [device EXCEPT !.opened = FALSE])
          /\ stream' = Ended(stream)
       \/ /\ Disconnected(i, serial, device)
          /\ UNCHANGED stream
    /\ UNCHANGED <<backendVars, boardVars, scanVars, lineBuffer>>

\* variant: the cancelled dialog returns without resetting isConnecting
RequestPortKeepsFlag(i) ==
    /\ Awaiting(i, "requestPort")
    /\ \/ /\ Goto(i, TryBlock(device), TRUE)
          /\ UNCHANGED <<serial, device, buttons>>
       \/ /\ Goto(i, "returned", TRUE)
          /\ UNCHANGED <<serial, device, buttons>>
    /\ UNCHANGED <<backendVars, boardVars, scanVars, readerVars>>

\* await navigator.serial.requestPort() settles: a port is chosen, or the
\* dialog is cancelled
RequestPort(i) ==
    /\ Awaiting(i, "requestPort")
    /\ \/ /\ Goto(i, TryBlock(device), TRUE)
          /\ UNCHANGED <<serial, device, buttons>>
       \/ /\ serial' = [serial EXCEPT !.isConnecting = FALSE]
          /\ Goto(i, "returned", FALSE)
          /\ UNCHANGED <<device, buttons>>
    /\ UNCHANGED <<backendVars, boardVars, scanVars, readerVars>>

\* await selectedPort.close() of a port found open, and the 1 s wait
SelectedPortClose(i) ==
    /\ Awaiting(i, "close")
    /\ \/ /\ device' = [device EXCEPT !.opened = FALSE]
          /\ stream' = Ended(stream)
          /\ Goto(i, "open", TRUE)
          /\ UNCHANGED <<serial, buttons>>
       \/ /\ Catch(i, serial, device)
          /\ UNCHANGED stream
    /\ UNCHANGED <<backendVars, boardVars, scanVars, lineBuffer>>

\* await selectedPort.open() settles; an open port cannot be opened again
SelectedPortOpen(i) ==
    /\ Awaiting(i, "open")
    /\ \/ /\ ~device.opened
          /\ device' = [device EXCEPT !.opened = TRUE]
          /\ serial' = [serial EXCEPT !.port = "port"]
          /\ Goto(i, "settle", TRUE)
          /\ UNCHANGED buttons
       \/ Catch(i, serial, device)
    /\ UNCHANGED <<backendVars, boardVars, scanVars, readerVars>>

\* setupSerialStreams(): nothing without a port; its try block may stop
\* before the reader, between reader and writer, or complete, and then it
\* has started readLoop() on the new reader
setupSerialStreams(s) ==
    IF s.port = "null"
    THEN {[serial |-> s, readLoop |-> FALSE]}
    ELSE {[serial |-> s, readLoop |-> FALSE],
          [serial |-> [s EXCEPT !.reader = "stream"], readLoop |-> FALSE],
          [serial |-> [s EXCEPT !.reader = "stream", !.writer = "stream"],
           readLoop |-> TRUE]}

\* the 2 s wait is over: setupSerialStreams(), isConnecting = false, and
\* performCLIHandshake from `lineBuffer = ''` to its first await of
\* writer.write, a TypeError without a writer
Settle(i) ==
    /\ Awaiting(i, "settle")
    /\ \E o \in setupSerialStreams(serial) :
          LET t == [o.serial EXCEPT !.isConnecting = FALSE]
          IN  /\ stream' = IF o.readLoop THEN [NoStream EXCEPT !.reading = TRUE]
                                        ELSE stream
              /\ lineBuffer' = <<>>
              /\ IF t.writer = "null"
                 THEN Catch(i, t, device)
                 ELSE /\ serial' = t
                      /\ invocation' = [invocation EXCEPT ![i] =
                             [@ EXCEPT !.pc = "handshake", !.armed = FALSE, !.writes = 1]]
                      /\ UNCHANGED <<device, buttons>>
    /\ UNCHANGED <<backendVars, boardVars, scanVars>>

HandshakeWrites == 3

\* performCLIHandshake: a write and its wait are over; the next write, or
\* after the last one the return to connectToPort, which updates the UI
performCLIHandshake(i) ==
    /\ Awaiting(i, "handshake")
    /\ \/ Catch(i, serial, device)
       \/ IF invocation[i].writes < HandshakeWrites
          THEN IF serial.writer = "null"
               THEN Catch(i, serial, device)
               ELSE /\ invocation' = [invocation EXCEPT ![i].writes = @ + 1]
                    /\ UNCHANGED <<serial, device, buttons>>
          ELSE /\ buttons' = ConnectedUI
               /\ Goto(i, "returned", FALSE)
               /\ UNCHANGED <<serial, device>>
    /\ UNCHANGED <<backendVars, boardVars, scanVars, readerVars>>

\* the awaits of invocation i that the browser settles
Settles(i) ==
    \/ ReaderCancel(i)
    \/ WriterClose(i)
    \/ PortClose(i)
    \/ RequestPort(i)
    \/ SelectedPortClose(i)
    \/ SelectedPortOpen(i)
    \/ Settle(i)
    \/ performCLIHandshake(i)

InitConnect ==
    /\ ResolverInit
    /\ BuilderIdle
    /\ BoardIdle
    /\ ScanIdle
    /\ ReaderIdle
    /\ serial = SerialAtLoad
    /\ device \in [opened : BOOLEAN]
    /\ invocation = [i \in Invocations |-> NotClicked]
    /\ buttons \in [btnConnect : {[disabled |-> FALSE]},
                    btnGetBoard : [disabled : BOOLEAN]]

NextConnect ==
    \/ \E i \in Invocations : connectToPort(i)
    \/ \E i \in Invocations : ReaderCancel(i)
    \/ \E i \in Invocations : WriterClose(i)
    \/ \E i \in Invocations : PortClose(i)
    \/ \E i \in Invocations : RequestPort(i)
    \/ \E i \in Invocations : SelectedPortClose(i)
    \/ \E i \in Invocations : SelectedPortOpen(i)
    \/ \E i \in Invocations : Settle(i)
    \/ \E i \in Invocations : performCLIHandshake(i)

SpecConnect == InitConnect /\ [][NextConnect]_vars

\* every await of a started invocation settles
FairConnect == SpecConnect /\ \A i \in Invocations : WF_vars(Settles(i))

----------------------------------------------------------------------------
(* The board scan of the hardware page: readBoardConfiguration of eeprom.js, *)
(* one action per await.  A log line is followed by its kind: "prompt" ends  *)
(* with '>' or contains '$', "error" contains 'error' or 'fail', "hex" is a  *)
(* hex-dump line, "info" is any other line.  One scan is followed from the   *)
(* click to its finally block, over the first MaxChannels channels of one   *)
(* MUX; the board may send any line at any time.                            *)

LineKinds == {"info", "prompt", "error", "hex"}

Min(a, b) == IF a < b THEN a ELSE b

\* the commands of initializeI2CBus
initCommands == <<"i2c begin", "i2c speed 400000", "eeprom init", "eeprom addr 0x50", "scan">>

\* logLine(message): LOG_LINES.push(message)
logLine(L, kind) ==
    [sincePrompt |-> IF kind = "prompt" THEN 0 ELSE Min(L.sincePrompt + 1, PromptWindow),
     sinceFail |-> IF kind = "error" THEN 0 ELSE Min(L.sinceFail + 1, FailWindow),
     hexAdded |-> L.hexAdded \/ kind = "hex"]

RECURSIVE logLines(_, _)
logLines(L, kinds) ==
    IF kinds = <<>> THEN L ELSE logLines(logLine(L, Head(kinds)), Tail(kinds))

\* recentLines.some(line => line.trim().endsWith('>') || line.includes('$'))
\* over LOG_LINES.slice(Math.max(0, LOG_LINES.length - 10))
hasPrompt(L) == L.sincePrompt < PromptWindow

\* recentLog.includes('error') || recentLog.includes('fail') over
\* LOG_LINES.slice(-3)
recentFail(L) == L.sinceFail < FailWindow

\* sendCommand(command): the outcomes of one call: the refusal when not
\* connected, the failed write, or the write and its '> command' line
sendCommand(L) ==
    IF serial.port = "null" \/ serial.writer = "null" \/ serial.isConnecting
    THEN {[log |-> logLine(L, "error"), ok |-> FALSE]}
    ELSE {[log |-> logLine(L, "error"), ok |-> FALSE],
          [log |-> logLine(L, "info"), ok |-> TRUE]}

\* where the scan is between the write of a command and the end of
\* sendCommand, and where it is inside the waitForPrompt that follows
Sends == {"sm", "er", "hd.send", "hd2"}
Waits == {"sm.wait", "er.wait", "hd.wait", "hd2.wait"}

\* readLoop: a complete line of the board arrives and is logged.  The
\* summary of the current channel notes what arrives between the write of
\* its 'sm' and the MUX check, and a hex-dump line that arrives between
\* hexLinesBefore and the end of the first wait
readLoop(kind) ==
    /\ serial.port # "null" /\ serial.reader # "null"
    /\ LOG_LINES' = logLine(LOG_LINES, kind)
    /\ LET noted == IF scan.pc \in {"sm", "sm.wait"}
                    THEN [scan EXCEPT !.current.answer =
                             IF kind = "error" \/ @ = "error" THEN "error" ELSE "ok"]
                    ELSE IF scan.pc \in {"hd.send", "hd.wait"} /\ kind = "hex"
                    THEN [scan EXCEPT !.current.grew = TRUE]
                    ELSE scan
       IN  scan' = IF kind = "prompt" /\ scan.pc \in Sends \cup Waits
                   THEN [noted EXCEPT !.prompted = TRUE]
                   ELSE noted
    /\ UNCHANGED <<serialVars, backendVars, boardVars, readerVars>>

\* click on btnGetBoard: readBoardConfiguration up to the first sendCommand
readBoardConfiguration ==
    /\ scan.pc = "idle"
    /\ ~buttons.btnGetBoard.disabled
    /\ IF serial.port = "null"
       THEN /\ scan' = [scan EXCEPT !.pc = "returned", !.result = "alert"]
            /\ UNCHANGED <<LOG_LINES, buttons>>
       ELSE /\ buttons' = [buttons EXCEPT !.btnGetBoard.disabled = TRUE]
            /\ LOG_LINES' = logLines(EmptyLog, <<"info", "info", "info", "info">>)
            /\ scan' = [scan EXCEPT !.pc = "init", !.k = 1]
    /\ UNCHANGED <<serial, device, invocation, backendVars, boardVars, readerVars>>

\* initializeI2CBus: one command and its 300 ms; after the last one the 1 s
\* wait and the headers of the first channel
initializeI2CBus ==
    /\ scan.pc = "init"
    /\ \E o \in sendCommand(LOG_LINES) :
          IF scan.k < Len(initCommands)
          THEN /\ LOG_LINES' = logLine(o.log, "info")
               /\ scan' = [scan EXCEPT !.k = @ + 1]
          ELSE /\ LOG_LINES' = logLines(o.log, <<"info", "info", "info">>)
               /\ scan' = [scan EXCEPT !.pc = "sm", !.channel = 1]
    /\ UNCHANGED <<serialVars, backendVars, boardVars, readerVars>>

\* the end of one pass of the channel loop: the next channel's header, or
\* after the last channel the end of the loop
NextChannel(s, L, outcome) ==
    LET done == [s EXCEPT !.finished = [s.current EXCEPT !.outcome = outcome],
                          !.current = NoChannel, !.prompted = FALSE]
    IN  /\ LOG_LINES' = logLine(L, "info")
        /\ scan' = IF s.channel < MaxChannels
                   THEN [done EXCEPT !.pc = "sm", !.channel = @ + 1]
                   ELSE [done EXCEPT !.pc = "parse"]

\* sendCommand('sm <mux> <channel>'); `continue` when it returns false
SelectChannel ==
    /\ scan.pc = "sm"
    /\ \E o \in sendCommand(LOG_LINES) :
          IF o.ok
          THEN /\ LOG_LINES' = o.log
               /\ scan' = [scan EXCEPT !.pc = "sm.wait"]
          ELSE NextChannel(scan, o.log, "unsent")
    /\ UNCHANGED <<serialVars, backendVars, boardVars, readerVars>>

\* readBoardConfiguration from the end of a wait to its next await
Resume ==
    CASE scan.pc = "sm.wait" ->
            IF recentFail(LOG_LINES)
            THEN NextChannel(scan, logLine(LOG_LINES, "error"), "skipped")
            ELSE /\ LOG_LINES' = logLine(LOG_LINES, "info")
                 /\ scan' = [scan EXCEPT !.pc = "er", !.prompted = FALSE]
      [] scan.pc = "er.wait" ->
            /\ scan' = [scan EXCEPT !.pc = "hd", !.prompted = FALSE]
            /\ UNCHANGED LOG_LINES
      [] scan.pc = "hd.wait" ->
            IF ~LOG_LINES.hexAdded
            THEN /\ LOG_LINES' = logLine(LOG_LINES, "error")
                 /\ scan' = [scan EXCEPT !.pc = "hd2", !.prompted = FALSE]
            ELSE /\ scan' = [scan EXCEPT !.pc = "settle", !.prompted = FALSE]
                 /\ UNCHANGED LOG_LINES
      [] scan.pc = "hd2.wait" ->
            /\ scan' = [scan EXCEPT !.pc = "settle", !.prompted = FALSE]
            /\ UNCHANGED LOG_LINES

\* variant: the interval never gives up
waitForPromptForever(elapsed) ==
    /\ scan.pc \in Waits
    /\ hasPrompt(LOG_LINES)
    /\ Resume
    /\ UNCHANGED <<serialVars, backendVars, boardVars, readerVars>>

\* waitForPrompt(timeoutMs): a tick of the interval finds a prompt among the
\* last ten lines of the log, or the timeout elapsed
waitForPrompt(elapsed) ==
    /\ scan.pc \in Waits
    /\ hasPrompt(LOG_LINES) \/ elapsed
    /\ Resume
    /\ UNCHANGED <<serialVars, backendVars, boardVars, readerVars>>

\* sendCommand('er 0 64'), its result unused
ReadEEPROM ==
    /\ scan.pc = "er"
    /\ \E o \in sendCommand(LOG_LINES) :
          /\ LOG_LINES' = o.log
          /\ scan' = [scan EXCEPT !.pc = "er.wait"]
    /\ UNCHANGED <<serialVars, backendVars, boardVars, readerVars>>

\* variant: the hex-dump lines are counted from the start of the scan
TakeHexLinesBeforeOnce ==
    /\ scan.pc = "hd"
    /\ scan' = [scan EXCEPT !.pc = "hd.send"]
    /\ UNCHANGED <<LOG_LINES, serialVars, backendVars, boardVars, readerVars>>

\* the 300 ms after the EEPROM read are over: hexLinesBefore is taken
TakeHexLinesBefore ==
    /\ scan.pc = "hd"
    /\ LOG_LINES' = [LOG_LINES EXCEPT !.hexAdded = FALSE]
    /\ scan' = [scan EXCEPT !.pc = "hd.send"]
    /\ UNCHANGED <<serialVars, backendVars, boardVars, readerVars>>

\* sendCommand('hd 0 16'), its result unused: the first attempt, or after
\* 300 ms the second
HexDump ==
    /\ scan.pc \in {"hd.send", "hd2"}
    /\ \E o \in sendCommand(LOG_LINES) :
          /\ LOG_LINES' = o.log
          /\ scan' = [scan EXCEPT
                        !.pc = IF scan.pc = "hd.send" THEN "hd.wait" ELSE "hd2.wait",
                        !.current.calls = @ + 1,
                        !.current.sent = @ + (IF o.ok THEN 1 ELSE 0)]
    /\ UNCHANGED <<serialVars, backendVars, boardVars, readerVars>>

\* the 750 ms after a channel was read
ChannelSettled ==
    /\ scan.pc = "settle"
    /\ NextChannel(scan, LOG_LINES, "read")
    /\ UNCHANGED <<serialVars, backendVars, boardVars, readerVars>>

\* the boards /interpret_hardware is followed with: one component, and a
\* regulator pair
ParsedBoards ==
    {[c \in Cells |-> IF c = <<0, 0>> THEN "CDS" ELSE "none"],
     [c \in Cells |-> IF c = <<0, 0>> THEN "Repressor Start" ELSE "Repressor End"]}

\* parseLogWithBackend() and the finally block: the backend answers with a
\* board, with no component, with a failure, or the parsing throws
parseLogWithBackend ==
    /\ scan.pc = "parse"
    /\ \/ /\ \E board \in ParsedBoards : Populated(board)
          /\ scan' = [scan EXCEPT !.pc = "returned", !.result = "populated"]
          /\ LOG_LINES' = logLine(LOG_LINES, "info")
       \/ /\ \E result \in {"empty", "failed", "thrown"} :
                /\ scan' = [scan EXCEPT !.pc = "returned", !.result = result]
                /\ LOG_LINES' = logLine(LOG_LINES, IF result = "empty" THEN "info" ELSE "error")
          /\ UNCHANGED boardVars
    /\ buttons' = [buttons EXCEPT !.btnGetBoard.disabled = FALSE]
    /\ UNCHANGED <<serial, device, invocation, backendVars, readerVars>>

\* the state after a completed handshake
Connected ==
    [port |-> "port", reader |-> "stream", writer |-> "stream", isConnecting |-> FALSE]

InitScan ==
    /\ ResolverInit
    /\ BuilderIdle
    /\ ScanIdle
    /\ page = "hardware"
    /\ state = StateAtLoad
    /\ cells = [c \in Cells |-> EmptyCell]
    /\ ConnectorManagerEEPROM = ManagerAtLoad
    /\ thrown = "none"
    /\ toggle = FALSE
    /\ request = NoRequest
    /\ now = 0
    /\ invocation = [i \in Invocations |-> NotClicked]
    /\ lineBuffer = <<>>
    /\ \/ /\ serial = Connected
          /\ device = [opened |-> TRUE]
          /\ buttons = ConnectedUI
          /\ stream = [NoStream EXCEPT !.reading = TRUE]
       \/ /\ serial = SerialAtLoad
          /\ device = [opened |-> FALSE]
          /\ stream = NoStream
          /\ buttons = [btnConnect |-> [disabled |-> FALSE],
                        btnGetBoard |-> [disabled |-> FALSE]]

\* the steps of a started scan
ScanStep ==
    \/ initializeI2CBus
    \/ SelectChannel
    \/ \E elapsed \in BOOLEAN : waitForPrompt(elapsed)
    \/ ReadEEPROM
    \/ TakeHexLinesBefore
    \/ HexDump
    \/ ChannelSettled
    \/ parseLogWithBackend

NextScan ==
    \/ readBoardConfiguration
    \/ \E kind \in LineKinds : readLoop(kind)
    \/ initializeI2CBus
    \/ SelectChannel
    \/ \E elapsed \in BOOLEAN : waitForPrompt(elapsed)
    \/ ReadEEPROM
    \/ TakeHexLinesBefore
    \/ HexDump
    \/ ChannelSettled
    \/ parseLogWithBackend

SpecScan == InitScan /\ [][NextScan]_vars

\* timers fire and promises settle
FairScan == SpecScan /\ WF_vars(ScanStep)

----------------------------------------------------------------------------
(* Line assembly: readLoop of eeprom.js, one action per chunk that          *)
(* reader.read() delivers.  Text is a sequence of characters; the board     *)
(* sends letters, carriage returns and line feeds, cut into chunks at any   *)
(* place.  The letter at a place of the stream is given by the place, so    *)
(* that lines differ and their order shows.                                 *)

CR == "\r"
LF == "\n"

\* the most characters one stream delivers
MaxText == 3

Letter(place) == <<"a", "b", "c", "d", "e", "f", "g", "h", "i", "j", "k", "l">>[place]

\* what a chunk is made of, place by place
Shapes == UNION {[1..len -> {"letter", CR, LF}] : len \in 1..MaxText}

\* the chunk of a shape that follows `sent` characters
Chunk(sent, shape) ==
    [k \in 1..Len(shape) |-> IF shape[k] = "letter" THEN Letter(sent + k) ELSE shape[k]]

\* text.split(/\r?\n/), the piece `piece` being open
RECURSIVE pieces(_, _)
pieces(text, piece) ==
    IF text = <<>> THEN <<piece>>
    ELSE IF Head(text) = LF THEN <<piece>> \o pieces(Tail(text), <<>>)
    ELSE IF Head(text) = CR /\ Len(text) >= 2 /\ text[2] = LF
    THEN <<piece>> \o pieces(Tail(Tail(text)), <<>>)
    ELSE pieces(Tail(text), Append(piece, Head(text)))

split(text) == pieces(text, <<>>)

\* String.prototype.trim(): white space is removed from both ends
RECURSIVE trimStart(_)
trimStart(text) ==
    IF text # <<>> /\ Head(text) \in {CR, LF, " "} THEN trimStart(Tail(text)) ELSE text

RECURSIVE trimEnd(_)
trimEnd(text) ==
    IF text # <<>> /\ text[Len(text)] \in {CR, LF, " "}
    THEN trimEnd(SubSeq(text, 1, Len(text) - 1))
    ELSE text

trim(text) == trimEnd(trimStart(text))

\* the for-loop of readLoop: the trimmed pieces that are not empty, but for
\* the last piece
completeLines(lines) ==
    LET kept == SelectSeq(SubSeq(lines, 1, Len(lines) - 1), LAMBDA l : trim(l) # <<>>)
    IN  [k \in 1..Len(kept) |-> trim(kept[k])]

\* readLoop: reader.read() resolves with a chunk of the given shape.  The
\* loop goes on while port and reader are set, which it looks at after the
\* chunk is dealt with
readLoopChunk(shape) ==
    /\ stream.reading /\ device.opened
    /\ Len(stream.received) + Len(shape) <= MaxText
    /\ LET value == Chunk(Len(stream.received), shape)
           lines == split(lineBuffer \o value)
           pushed == completeLines(lines)
       IN  /\ LOG_LINES' = logLines(LOG_LINES, [k \in 1..Len(pushed) |-> "info"])
           /\ lineBuffer' = lines[Len(lines)]
           /\ stream' = [reading |-> serial.port # "null" /\ serial.reader # "null",
                         received |-> stream.received \o value,
                         logged |-> stream.logged \o pushed]
    /\ UNCHANGED <<serialVars, scan, backendVars, boardVars>>

InitAssemble == InitConnect

NextAssemble ==
    \/ NextConnect
    \/ \E shape \in Shapes : readLoopChunk(shape)
    \/ readBoardConfiguration

SpecAssemble == InitAssemble /\ [][NextAssemble]_vars

----------------------------------------------------------------------------
(* Properties of the override resolution *)

\* the parameters the builder of thread t reads
Effective(t) == Deref(heap, adjusted_constants[t])

\* thread t has resolved a request with promoter1_strength = 10.0 and
\* global_transcription_rate = 1.5, overrides enabled
PrecedenceRequest(t) ==
    /\ pc[t] = "build"
    /\ apply_dial[t]
    /\ DialGet(dial_data[t], promoter1_strength, R(0)) = R(10)
    /\ DialGet(dial_data[t], global_transcription_rate, R(1)) = Rat(3, 2)

\* C1: with registry default 5.0, promoter1_strength = 10.0 and
\* global_transcription_rate = 1.5, overrides enabled, the resolved strength of
\* promoter_1 is 15.0 (override first, then the multiplier), not 7.5.
C1_OverridePrecedence ==
    \A t \in Threads :
        PrecedenceRequest(t) => Effective(t).promoter_1.strength = R(15)

C1_Witness ==
    \E t \in Threads :
        /\ PrecedenceRequest(t)
        /\ DefaultRegistry.promoter_1.strength = R(5)
        /\ Effective(t).promoter_1.strength = R(15)
        /\ Effective(t).promoter_2.strength = Rat(15, 2)

\* C2: with the apply-overrides flag false the resolved parameters equal the
\* unmodified registry defaults, for every part and field, whatever the request holds.
C2_DisabledOverrides ==
    \A t \in Threads :
        (pc[t] = "build" /\ ~apply_dial[t]) => Effective(t) = DefaultRegistry

\* C3: the Part Registry is never mutated: after any sequence of resolutions
\* every value of every part of the registry is what it was at the start.
C3_RegistryNeverMutated == Registry = DefaultRegistry

\* C4: under every interleaving of two concurrent resolutions, each one's
\* effective parameters equal what it would produce running alone against the
\* default registry.
C4_NoInterference ==
    \A t \in Threads :
        pc[t] = "build" =>
            Effective(t) = Deref(ResolveAlone(DefaultHeap, dial_data[t], apply_dial[t]),
                                 COMPONENT_CONSTANTS)

\* C5: resolving the same override request twice in succession yields the same
\* effective parameters both times.
C5_Idempotent ==
    \A t \in Threads :
        (/\ pc[t] = "build"
         /\ last.valid
         /\ last.dial = dial_data[t]
         /\ last.apply = apply_dial[t]) => Effective(t) = last.result

----------------------------------------------------------------------------
(* Properties of the circuit builder *)

\* build() has run: the block loop is over
Assembled == bpc \in {"done", "raised"}

PartInstances == {i \in 1..Len(items) : items[i] # NoneItem}

\* the number of places in the circuits' component lists that hold item i
BlocksHolding(i) ==
    Cardinality({e \in {<<k, j>> : k \in 1..Len(circuits), j \in 1..Len(items)} :
                    /\ e[2] <= Len(circuits[e[1]].components)
                    /\ circuits[e[1]].components[e[2]].id = i})

\* no None marker lies between items i and j
SameRun(i, j) ==
    \A m \in 1..Len(items) :
        ((i <= m /\ m <= j) \/ (j <= m /\ m <= i)) => items[m] # NoneItem

\* the gap-delimited run of item i holds a CDS
RunHasCds(i) ==
    \E j \in 1..Len(items) : items[j].type = "cds" /\ SameRun(i, j)

SomeCds == \E i \in 1..Len(items) : items[i].type = "cds"

\* C6 as stated: for a part list with at least one CDS, assemble produces at
\* least one CircuitBlock and every Part Instance is in exactly one block.
C6_EveryPartInOneBlock ==
    (Assembled /\ SomeCds) =>
        /\ Len(circuits) >= 1
        /\ \A i \in PartInstances : BlocksHolding(i) = 1

\* C6 amended: for a part list with at least one CDS, assemble produces at
\* least one CircuitBlock; a Part Instance is in exactly one block when its
\* gap-delimited run holds a CDS and in no block otherwise.
C6_PartsOfCdsRunsInOneBlock ==
    (Assembled /\ SomeCds) =>
        /\ Len(circuits) >= 1
        /\ \A i \in PartInstances :
              BlocksHolding(i) = (IF RunHasCds(i) THEN 1 ELSE 0)

C6_Witness ==
    /\ Assembled
    /\ Len(circuits) >= 1
    /\ \E i \in PartInstances : BlocksHolding(i) = 0
    /\ \E i \in PartInstances : BlocksHolding(i) = 1

CdsEntries == SelectSeq(AllComponents(circuits, 1), IsCds)

GoverningPromoter(e) == find_promoter_before(circuits, e)

\* the regulation records that stand for CDS e: the explicit records that
\* target its governing promoter and the constitutive record made for it
RecordsFor(e) ==
    Cardinality({k \in 1..Len(regulations) :
        /\ regulations[k].target = GoverningPromoter(e)
        /\ IF Explicit(regulations[k])
           THEN GoverningPromoter(e) # "None"
           ELSE regulations[k].cds = e.comp.id})

ConstitutiveFor(e) ==
    Cardinality({k \in 1..Len(regulations) :
        ~Explicit(regulations[k]) /\ regulations[k].cds = e.comp.id})

RequiredFields(type) ==
    IF type = "promoter" THEN {"strength"}
    ELSE IF type = "rbs" THEN {"efficiency"}
    ELSE IF type = "cds" THEN {"translation_rate", "degradation_rate", "init_conc"}
    ELSE {}

C10_CdsRatesValid ==
    Assembled =>
        \A n \in 1..Len(CdsEntries) :
            LET bag == CdsEntries[n].comp.parameters
            IN  /\ "degradation_rate" \in DOMAIN bag
                /\ RPositive(bag.degradation_rate)
                /\ "init_conc" \in DOMAIN bag
                /\ RNonNegative(bag.init_conc)

----------------------------------------------------------------------------
(* Properties of the regulation resolution *)

Environmental(r) == r.type \in {"environmental_repression", "environmental_activation"}

FloatingFamilies == {k \in 1..Len(regulators) : regulators[k].is_floating}

PromoterEntries == SelectSeq(AllComponents(circuits, 1), IsPromoter)

\* the environmental records of family k that target promoter name p
FloatingRecordsOf(k, p) ==
    {n \in 1..Len(regulations) :
        /\ regulations[n].type = "environmental_" \o regulators[k].type
        /\ regulations[n].source = items[regulators[k].starts[1]].label
        /\ regulations[n].target = p}

\* the promoter components of all circuits that are named p
PromotersNamed(p) ==
    {n \in 1..Len(PromoterEntries) : PromoterEntries[n].comp.name = p}

C12_ResolutionNeverThrows == bpc # "raised"

\* the families with no start or no end
UnpairedFamilies ==
    {k \in 1..Len(regulators) :
        regulators[k].starts = <<>> \/ regulators[k].ends = <<>>}

\* the records that family k contributed: by its first start element's label
\* for a floating family, by its gene's CDS for a positional one
RecordsOfFamily(k) ==
    {n \in 1..Len(regulations) :
        IF regulators[k].is_floating
        THEN /\ Environmental(regulations[n])
             /\ regulators[k].starts # <<>>
             /\ regulations[n].source = items[regulators[k].starts[1]].label
        ELSE /\ regulations[n].type = "transcriptional_" \o regulators[k].type
             /\ matches_gene(regulations[n].source, regulators[k].gene)}

\* C13: a regulator family that has no end or no start is reported in
\* unpaired_regulators, contributes no regulation record, and does not stop
\* the simulation.
C13_UnpairedOmitted ==
    (bpc # "parse" /\ bpc # "idle") =>
        \A k \in UnpairedFamilies :
            /\ \E u \in 1..Len(unpaired_regulators) :
                  unpaired_regulators[u].reg_key = regulators[k].reg_key
            /\ RecordsOfFamily(k) = {}
            /\ bpc = "done"

----------------------------------------------------------------------------
(* Properties of the block validation *)

\* item i opens a gap-delimited run
RunStart(i) == items[i] # NoneItem /\ (i = 1 \/ items[i - 1] = NoneItem)

\* the runs that hold a CDS, by their first item
CdsRuns == {i \in PartInstances : RunStart(i) /\ RunHasCds(i)}

\* the items of the run that item i opens, in order
RunItems(i) == SelectSeq([n \in 1..Len(items) |-> n], LAMBDA j : SameRun(i, j))

\* the circuits whose components are the items of the run that i opens
CircuitsOfRun(i) ==
    {k \in 1..Len(circuits) :
        [j \in 1..Len(circuits[k].components) |-> circuits[k].components[j].id]
            = RunItems(i)}

Flagged(k) == circuits[k].extras # <<>> \/ circuits[k].misplaced # <<>>

\* the kinds of the RBS and CDS of the run that i opens, in order
RbsCdsKinds(i) ==
    LET seq == SelectSeq(RunItems(i), LAMBDA j : items[j].type \in {"rbs", "cds"})
    IN  [n \in 1..Len(seq) |-> items[seq[n]].type]

\* rbs, rbs, cds, cds: two RBS in a row followed by two CDS in a row
DoubledRbs(i) ==
    \E n \in 1..Len(RbsCdsKinds(i)) :
        /\ n + 3 <= Len(RbsCdsKinds(i))
        /\ RbsCdsKinds(i)[n] = "rbs" /\ RbsCdsKinds(i)[n + 1] = "rbs"
        /\ RbsCdsKinds(i)[n + 2] = "cds" /\ RbsCdsKinds(i)[n + 3] = "cds"

\* the RBS/CDS kinds of the run are not (rbs, cds)+ and not rbs, cds+
NeitherAlternatingNorGrouped(i) ==
    LET kinds == RbsCdsKinds(i)
        odd == {n \in 1..Len(kinds) : n % 2 = 1}
    IN  /\ ~(/\ Len(kinds) % 2 = 0
              /\ \A n \in 1..Len(kinds) : (kinds[n] = "rbs") <=> (n \in odd))
        /\ ~(/\ Len(kinds) >= 2
              /\ kinds[1] = "rbs"
              /\ \A n \in 2..Len(kinds) : kinds[n] = "cds")

\* a terminator in front of every CDS of the run, or an RBS behind every CDS
OutOfOrder(i) ==
    \E j \in 1..Len(RunItems(i)) :
        LET at == RunItems(i)[j]
            cdss == {c \in 1..Len(items) : SameRun(i, c) /\ items[c].type = "cds"}
        IN  \/ items[at].type = "terminator" /\ \A c \in cdss : at < c
            \/ items[at].type = "rbs" /\ \A c \in cdss : c < at

PromotersOf(k) ==
    SelectSeq(circuits[k].components, LAMBDA c : c.type = "promoter")

ExtraPromoterIds(k) ==
    {circuits[k].extras[n].id : n \in {m \in 1..Len(circuits[k].extras) :
                                          circuits[k].extras[m].reason = "Extra promoter"}}

\* C15: in a block with more than one promoter every promoter after the first
\* is recorded in extras with reason "Extra promoter" and is excluded from
\* parameter lookup (its parameters bag stays empty); the first promoter is
\* never recorded as an extra.
C15_ExtraPromotersExcluded ==
    Assembled =>
        \A k \in 1..Len(circuits) :
            \A n \in 1..Len(PromotersOf(k)) :
                IF n = 1
                THEN PromotersOf(k)[n].id \notin ExtraPromoterIds(k)
                ELSE /\ PromotersOf(k)[n].id \in ExtraPromoterIds(k)
                     /\ PromotersOf(k)[n].parameters = EmptyBag
                     /\ parameters[PromotersOf(k)[n].id] = EmptyBag

\* C16: a block with zero CDS parts is discarded silently: it yields no
\* CircuitBlock and raises no error, and the remaining blocks are assembled.
C16_NoCdsBlockDiscarded ==
    Assembled =>
        /\ Len(circuits) = Cardinality(CdsRuns)
        /\ \A i \in CdsRuns : CircuitsOfRun(i) # {}
        /\ \A i \in PartInstances :
              ~RunHasCds(i) => (BlocksHolding(i) = 0 /\ circuit_name[i] = "None")

C16_Witness ==
    /\ Assembled
    /\ Len(circuits) = 1
    /\ \E i, j \in PartInstances :
          /\ i < j
          /\ ~RunHasCds(i)
          /\ RunHasCds(j)
          /\ BlocksHolding(j) = 1

\* C17: the k-th finalized block is named circuit_k: the names are pairwise
\* distinct and form circuit_1 .. circuit_n without gaps.
C17_SequentialNames ==
    Assembled =>
        /\ \A k \in 1..Len(circuits) :
              /\ circuits[k].name = "circuit_" \o ToString(k)
              /\ \A j \in 1..Len(circuits[k].components) :
                    circuit_name[circuits[k].components[j].id] = circuits[k].name
        /\ \A k, l \in 1..Len(circuits) :
              circuits[k].name = circuits[l].name => k = l

C17_Witness ==
    /\ Assembled
    /\ Len(circuits) = 2
    /\ circuits[1].name = "circuit_1"
    /\ circuits[2].name = "circuit_2"
    /\ \E i \in PartInstances : circuit_name[i] = "circuit_2"

----------------------------------------------------------------------------
(* Properties of the simulation *)

\* the request has been answered, or was refused before it was made
Answered == bpc \in {"done", "raised", "rejected"}

\* C18: a part list that is empty or holds no CDS ends in an explicit
\* "nothing to simulate" result and the ODE solver is never invoked.
C18_FatalInputShortCircuits ==
    (Answered /\ ~validateCellboard(items).valid) =>
        /\ solver_calls = 0
        /\ response \notin {"none", "success"}

\* the nearest item of the kind before item i in its gap-delimited run, 0 when
\* there is none
UpstreamItem(i, type) ==
    LET before == {j \in 1..(i - 1) : items[j].type = type /\ SameRun(j, i)}
    IN  IF before = {} THEN 0
        ELSE CHOOSE j \in before : \A j2 \in before : j2 <= j

ThreeNodeCyclicRepression ==
    /\ Len(cds_params) = 3
    /\ \A i \in 1..3 :
          /\ DOMAIN cds_params[i].Kr = {cds_params[((i + 1) % 3) + 1].name}
          /\ DOMAIN cds_params[i].Ka = {}
    /\ \A i, j \in 1..3 : i # j => cds_params[i].name # cds_params[j].name

AllZeroSupplied ==
    \A i \in 1..Len(cds_params) : cds_params[i].initial_conc = R(0)

AsymmetricSeed == <<R(1), Rat(1, 10), Rat(1, 20)>>

\* C20: for a three-node cyclic repression circuit whose supplied initial
\* concentrations are all zero, integration starts from the fixed asymmetric
\* seed, and from there at least one protein's concentration changes (its
\* derivative at the initial state is not zero), so the trajectory is not
\* flat at zero.
C20_SymmetryBroken ==
    (bpc = "solved" /\ ThreeNodeCyclicRepression /\ AllZeroSupplied) =>
        /\ p0 = AsymmetricSeed
        /\ response = "success"
        /\ \E i \in 1..3 : rhs(cds_params, p0)[i] # R(0)

C20_Witness ==
    /\ bpc = "solved"
    /\ ThreeNodeCyclicRepression
    /\ AllZeroSupplied
    /\ p0[1] = R(1)
    /\ solver_calls = 1

----------------------------------------------------------------------------
(* Properties of the design board *)

\* the cell shows a component
Occupied(cell) == cells[cell].placed.type # "none"

\* the components of a list whose coordinates are those of the cell
EntriesAt(list, cell) == {i \in 1..Len(list) : LooselyAt(list[i], cell)}

\* nothing with the cell's coordinates is left in either list and the cell
\* is displayed empty
Vacated(cell) ==
    /\ EntriesAt(state.placedComponents, cell) = {}
    /\ \A t \in BoardTypes : EntriesAt(state.cellboard[t], cell) = {}
    /\ cells[cell] = EmptyCell

\* C21: after removeComponent(x, y) on a cell that holds a component, no
\* component with coordinates (x, y) remains in state.placedComponents or in
\* any list of state.cellboard, and the cell is displayed empty
C21_RemovalLeavesNothing ==
    [][\A cell \in Cells : (Occupied(cell) /\ ContextMenu(cell)) => Vacated(cell)']_vars

\* C22: state.cellboard never holds more than one component per cell
C22_OneComponentPerCell ==
    \A cell \in Cells :
        Cardinality({<<t, i>> \in BoardTypes \X (1..MaxPlaced) :
                        /\ i <= Len(state.cellboard[t])
                        /\ LooselyAt(state.cellboard[t][i], cell)}) <= 1

\* the request carries a custom value of a component parameter somewhere
CarriesCustomValue(req) ==
    \/ /\ "dial" \in DOMAIN req
       /\ \E k \in DOMAIN req.dial : k \notin GlobalKeys
    \/ \E t \in BoardTypes : \E i \in 1..Len(req.cellboard[t]) :
          /\ "parameters" \in DOMAIN req.cellboard[t][i]
          /\ DOMAIN req.cellboard[t][i].parameters # {}

\* the request a simulation sends with the toggle off, as the claim has it
DefaultsOnly(req) ==
    /\ "apply_dial" \in DOMAIN req
    /\ req.apply_dial = FALSE
    /\ "dial" \in DOMAIN req
    /\ req.dial = DefaultDial
    /\ ~CarriesCustomValue(req)

\* a POST /simulate leaves the page in this step
Posts ==
    \/ \E form \in FormInputs : runSimulation(form)
    \/ \E form \in FormInputs :
          runSimulationFromPlacedComponents(form) /\ \E c \in Cells : Occupied(c)
    \/ \E board \in ScannedBoards : PopulateBoard(board)

\* C23: a simulation run with the enable-dial toggle off sends apply_dial =
\* false, a dial of exactly the five global multipliers at 1.0, and no custom
\* per-component parameter value anywhere in the request
C23_ToggleOffSendsDefaults ==
    [][(~toggle /\ Posts) => DefaultsOnly(request')]_vars

\* every list, count and lookup is empty and every cell is cleared
BoardEmpty ==
    /\ state.placedComponents = <<>>
    /\ \A t \in BoardTypes : state.cellboard[t] = <<>>
    /\ \A b \in DOMAIN state.componentCounts : state.componentCounts[b] = 0
    /\ DOMAIN ConnectorManagerEEPROM.componentLookup = {}
    /\ DOMAIN ConnectorManagerEEPROM.portLookup = {}
    /\ DOMAIN ConnectorManagerEEPROM.connectorLookup = {}
    /\ ConnectorManagerEEPROM.connectorPool = <<>>
    /\ \A c \in Cells : cells[c] = EmptyCell

\* C24: clearBoard always completes and leaves a fully empty board
C24_ClearBoardEmptiesAll ==
    [][(DialClearBoard \/ HardwareClearBoard) => (thrown' = "none" /\ BoardEmpty')]_vars

----------------------------------------------------------------------------
(* Properties of the serial connection *)

\* invocation i is between its click and its return
Running(i) == invocation[i].pc \notin {"idle", "returned"}

NoneRunning == \A i \in Invocations : ~Running(i)

\* C25: connection attempts never run concurrently: at most one
\* connectToPort invocation is inside its disconnect, open, stream-setup or
\* handshake steps at any time, and an invocation that arrives while another
\* is running returns at once and leaves port, reader and writer alone.
C25_OneAttemptAtATime ==
    /\ [](Cardinality({i \in Invocations : Running(i)}) <= 1)
    /\ [][\A i \in Invocations :
             (connectToPort(i) /\ \E j \in Invocations : Running(j))
                => (invocation'[i].pc = "returned" /\ serial' = serial)]_vars

\* C26: whenever port is null and no connect or disconnect operation is in
\* progress, reader and writer are null as well.
C26_DisconnectedHoldsNoStream ==
    (serial.port = "null" /\ NoneRunning)
        => (serial.reader = "null" /\ serial.writer = "null")

\* C27: every connectToPort invocation that set isConnecting to true has
\* reset it by the time it returns, on every path, so isConnecting never
\* stays true: whenever it is true it becomes false again.
C27_FlagAlwaysReset ==
    /\ [](\A i \in Invocations :
             (Awaiting(i, "returned") /\ invocation[i].set) => ~invocation[i].armed)
    /\ (serial.isConnecting ~> ~serial.isConnecting)

\* an invocation that set the flag has returned through the catch block
\* after another, later one was rejected by the flag
C27_Witness ==
    \E i, j \in Invocations :
        /\ i < j
        /\ Awaiting(i, "returned") /\ invocation[i].set
        /\ Awaiting(j, "returned") /\ ~invocation[j].set
        /\ ~serial.isConnecting
        /\ ~buttons.btnConnect.disabled

----------------------------------------------------------------------------
(* Properties of the board scan *)

Scanning == scan.pc \notin {"idle", "returned"}

\* C28: every board scan terminates and re-enables the Read Board button:
\* once readBoardConfiguration has disabled the button, whatever the board
\* does, the scan returns and the button is enabled again.
C28_ScanTerminates ==
    (Scanning /\ buttons.btnGetBoard.disabled)
        ~> (scan.pc = "returned" /\ ~buttons.btnGetBoard.disabled)

\* a scan on a board that never offered a prompt has gone through every
\* timeout, found the backend failing, and returned with the button enabled
C28_Witness ==
    /\ scan.pc = "returned"
    /\ scan.result = "thrown"
    /\ scan.finished.outcome = "read"
    /\ ~hasPrompt(LOG_LINES)
    /\ ~buttons.btnGetBoard.disabled

\* C29 as stated: for each channel that is read, 'hd 0 16' is sent once,
\* and a second time if and only if the first attempt added no hex-dump
\* line to the log; never a third time.
C29_HexDumpSentOnceOrTwice ==
    scan.finished.outcome = "read"
        => /\ scan.finished.sent \in {1, 2}
           /\ scan.finished.sent = 2 <=> ~scan.finished.grew

\* C29 amended: for each channel that is read, sendCommand('hd 0 16') is
\* called once, and a second time if and only if no hex-dump line was logged
\* between hexLinesBefore and the end of the first wait; never a third time.
\* A call whose write fails sends nothing, so the board receives the command
\* at most twice.
C29_HexDumpRetryBound ==
    scan.finished.outcome = "read"
        => /\ scan.finished.calls \in {1, 2}
           /\ scan.finished.calls = 2 <=> ~scan.finished.grew
           /\ scan.finished.sent <= scan.finished.calls

\* a channel was read with one hex dump, the next one is being read with two
C29_Witness ==
    /\ scan.finished.outcome = "read"
    /\ scan.finished.calls = 1 /\ scan.finished.grew
    /\ scan.pc = "hd2.wait"
    /\ scan.current.calls = 2 /\ ~scan.current.grew

\* C30: a channel is skipped only if the MUX selection of that same channel
\* failed: its 'sm' could not be sent, or the board answered it with an
\* error.
C30_SkipOnlyOnOwnFailure ==
    scan.finished.outcome = "skipped" => scan.finished.answer = "error"

\* C31: a waitForPrompt that follows a command resolves only on a prompt
\* line received after that command, or on its timeout: a step that ends
\* a wait before the timeout has elapsed finds such a prompt.
C31_WaitEndsOnFreshPrompt ==
    [][waitForPrompt(FALSE) => scan.prompted]_vars

----------------------------------------------------------------------------
(* Properties of the line assembly *)

\* the place of the line feed that ends the line before place n, 0 if none
RECURSIVE LineStart(_, _)
LineStart(text, n) ==
    IF n = 0 \/ text[n] = LF THEN n ELSE LineStart(text, n - 1)

\* the line that the line feed at place n ends, without its terminator
LineEndingAt(text, n) ==
    LET from == LineStart(text, n - 1) + 1
        to == IF n - 1 >= from /\ text[n - 1] = CR THEN n - 2 ELSE n - 1
    IN  SubSeq(text, from, to)

NonBlank(line) == \E k \in 1..Len(line) : line[k] \notin {CR, LF, " "}

\* a line without the white space around it
Stripped(line) ==
    LET inked == {k \in 1..Len(line) : line[k] \notin {CR, LF, " "}}
    IN  SubSeq(line, CHOOSE k \in inked : \A m \in inked : k <= m,
                     CHOOSE k \in inked : \A m \in inked : k >= m)

\* the complete non-blank lines among the first n characters of a text
RECURSIVE SentLines(_, _)
SentLines(text, n) ==
    IF n = 0 THEN <<>>
    ELSE IF text[n] = LF /\ NonBlank(LineEndingAt(text, n))
    THEN Append(SentLines(text, n - 1), Stripped(LineEndingAt(text, n)))
    ELSE SentLines(text, n - 1)

\* C32: whatever the chunks and whatever connectToPort, the handshake and
\* the start of a scan do in between, the lines the read loop has appended
\* are the complete non-blank lines its stream has delivered, each once, in
\* order and whole (without the white space around them); the characters
\* after the last line feed are appended only once their line feed is there.
C32_LinesAssembledOnce ==
    stream.logged = SentLines(stream.received, Len(stream.received))


====
